---- MODULE Spec2Model ----
(***************************************************************************)
(* A model of svnmailer's change-to-group classification (main.py), of     *)
(* the dispatch loop Main.run, and of the size-bounded composition of the  *)
(* mail notifiers (stream.py, notifier/_textmail.py,                       *)
(* notifier/_multimail.py).                                                *)
(*                                                                         *)
(* Strings that the code concatenates or substitutes into are sequences of *)
(* one-character strings; all other strings are atoms.  A python dict is a *)
(* set of <<key, value>> pairs with at most one pair per key.              *)
(***************************************************************************)
EXTENDS Integers, Sequences, FiniteSets, TLC

VARIABLES
    \* ---- Main._getGroupSets / Main._getGroupsByChange ----
    groups,          \* settings.groups: the group containers, in config order
    changes,         \* the changes of the event (Main._getChanges)
    gpc,             \* position in _getGroupSets: "collect", "build", "done"
    cidx,            \* index of the next change of the collecting loop
    group_changes,   \* the dict group_changes, keyed by the group's identity
    returned,        \* what the last call of _getGroupsByChange returned
    group_sets,      \* the list group_sets
    \* ---- Main.run ----
    rpc,             \* position in run: "idle", "open", "groupsets", "select",
                     \* "run", "finish", "done"
    repos,           \* runtime._repos: "none", "open", "closed"
    nsets,           \* the number of GroupSets _getGroupSets returns
    gsidx,           \* index of the GroupSet of the outer loop
    notifiers,       \* the number of notifiers selected for that GroupSet
    nidx,            \* index of the notifier of the inner loop
    notifier_errors, \* the list notifier_errors, a record is <<groupset, notifier>>
    result,          \* how run ended: "running", "returned", or the exception
    attempted,       \* the <<groupset, notifier>> whose run() was called
    selected,        \* the GroupSets selectNotifiers was called for
    \* ---- stream.TruncatingStream ----
    tstream,         \* the TruncatingStream object: maxsize, add_note, current,
                     \* trunced, lastchar, and the wrapped stream
    tops,            \* the number of calls made on the stream
    written_log,     \* all text written since the start or the last seek(0)
    passed_log,      \* the part of it passed to the wrapped stream
    dropped_log,     \* the part of it not passed to the wrapped stream
    \* ---- notifier._textmail.decorateNotifier ----
    mode,            \* runtime.mode
    action,          \* groupset.groups[0].long_mail_action
    notifier,        \* the notifier returned: its class and constructor arguments
    \* ---- the splitting notifiers (notifier._textmail, notifier._multimail) ----
    spc,             \* position in composeMail: "idle", "meta", "paths",
                     \* "difflist", "diffs", "done"
    fp,              \* the content of self.fp
    fp_t,            \* the counters of the TruncatingStream in self.fp
    final_fp,        \* the SplittingStream: current, its content, tempfiles
    drop_fp,         \* the content of self.drop_fp
    drop_t,          \* the counters of the TruncatingStream in self.drop_fp
    diff_file_list,  \* self.diff_file_list: <<number, size>> of each diff part
    ndiffs,          \* the number of diff writer calls made
    rendered,        \* all text the writers have written to self.fp
    nummails,        \* the part count computed when the mails are made
    mails,           \* the mails yielded: subject marker, body, attached diffs
    \* ---- notifier._textmail.URLDecorator ----
    upc,             \* position in composeMail: "idle", "meta", "paths",
                     \* "difflist", "diffs", "written", "done"
    browser,         \* the browser options of the group configuration
    ufp,             \* the TruncatingStream inside the CuckooStream self.fp
    url_fp,          \* self.url_fp: whether it is a TruncatingStream, its state
    udiffs,          \* the number of changes writeDiffList has gone through
    ulog,            \* all text the writers have written to self.fp
    replaced,        \* replaceStream(self.url_fp) was called
    ubody,           \* the body of the mail made
    \* ---- notifier._mail.MailNotifier.getMailSubject ----
    jpc,             \* position in getMailSubject: "idle", "start", "files",
                     \* "dirs", "done"
    changeset,       \* the changes of the GroupSet with its xchanges, a set
    group0,          \* groups[0]: max_subject_length, the subject prefix and
                     \* the subject template of the mode
    countprefix,     \* the argument countprefix
    subject,         \* the local subject, at the end the value returned
    \* ---- notifier._mail.MailNotifier.run ----
    nparts,          \* the number of mails getMails yields for the notifier
    part,            \* the number of the mail the loop of run stands at
    transport        \* the calls of sendMail made so far: GroupSet, notifier,
                     \* part, and how the call ended

gvars == <<groups, changes, gpc, cidx, group_changes, returned, group_sets>>

rvars == <<rpc, repos, nsets, gsidx, notifiers, nidx, notifier_errors, result,
           attempted, selected>>

tvars == <<tstream, tops, written_log, passed_log, dropped_log>>

dvars == <<mode, action, notifier>>

svars == <<spc, fp, fp_t, final_fp, drop_fp, drop_t, diff_file_list, ndiffs,
           rendered, nummails, mails>>

uvars == <<upc, browser, ufp, url_fp, udiffs, ulog, replaced, ubody>>

jvars == <<jpc, changeset, group0, countprefix, subject>>

mvars == <<nparts, part, transport>>

vars == <<gvars, rvars, tvars, dvars, svars, uvars, jvars, mvars>>

\* the variables of the other parts, for each part of the model
notGrouping == <<rvars, tvars, dvars, svars, uvars, jvars, mvars>>

notRun == <<gvars, tvars, dvars, svars, uvars, jvars, mvars>>

notTrunc == <<gvars, rvars, dvars, svars, uvars, jvars, mvars>>

notDecorate == <<gvars, rvars, tvars, svars, uvars, jvars, mvars>>

notSplit == <<gvars, rvars, tvars, mode, action, notifier, uvars, jvars, mvars>>

notUrl == <<gvars, rvars, tvars, svars, mode, action, notifier, jvars, mvars>>

notSubject == <<gvars, rvars, tvars, action, notifier, svars, uvars, mvars>>

-----------------------------------------------------------------------------
(* Bounds of the model *)

MaxGroups == 3
MaxMatchGroups == 2
MaxChanges == 3
MaxSets == 3
MaxNotifiers == 2
MaxSize == 3
MaxWriteLen == 2
MaxCalls == 3
MaxDrop == 2
MaxChunk == 2
MaxDiffs == 3
MaxUrlSize == 7
MaxUrlDiffs == 2

-----------------------------------------------------------------------------
(* Python dicts *)

DictKeys(d) == {p[1] : p \in d}

DictGet(d, k) == (CHOOSE p \in d : p[1] = k)[2]

\* dict.update(u)
DictUpdate(d, u) == {p \in d : \A q \in u : q[1] # p[1]} \cup u

-----------------------------------------------------------------------------
(* Compiled regular expressions.  A regex is the set of the strings it     *)
(* matches, each with the groupdict() of the match.  The string tested for *)
(* a path is <<path, slash>>: the path, and whether a slash is appended.   *)

NoRx == [isset |-> FALSE, m |-> {}]

MkRx(m) == [isset |-> TRUE, m |-> m]

RxMatch(rx, s) == \E e \in rx.m : e[1] = s

RxGroupDict(rx, s) == (CHOOSE e \in rx.m : e[1] = s)[2]

-----------------------------------------------------------------------------
(* util.substitute: template % SafeDict(subst).  A template is a sequence  *)
(* of tokens, a literal character or a %(key)s reference.                  *)

Lit(c) == [kind |-> "lit", v |-> c]

Ref(k) == [kind |-> "ref", v |-> k]

NoValue == [isset |-> FALSE, t |-> <<>>]

MkValue(t) == [isset |-> TRUE, t |-> t]

\* SafeDict.__getitem__: '' on unknown keys (and on false values)
SafeGet(subst, k) == IF k \in DictKeys(subst) THEN DictGet(subst, k) ELSE <<>>

RECURSIVE Fill(_, _)
Fill(t, subst) ==
    IF t = <<>> THEN <<>>
    ELSE (IF Head(t).kind = "lit" THEN <<Head(t).v>>
          ELSE SafeGet(subst, Head(t).v)) \o Fill(Tail(t), subst)

substitute(template, subst) ==
    IF ~template.isset THEN NoValue
    ELSE MkValue(Fill(template.t, subst))

-----------------------------------------------------------------------------
(* The runtime settings of the run *)

ReposPath == <<"repo", FALSE>>

RuntimeAuthor == <<"u">>

RuntimeRevision == <<"7">>

RuntimeProperty == <<>>

-----------------------------------------------------------------------------
(* MailAction objects.  oid is the identity of the python object; 0 is     *)
(* None.  MailAction defines neither __eq__ nor __cmp__.                   *)

\* the drop submode: None, or the number given
NoDrop == [isset |-> FALSE, n |-> 0]

MkDrop(n) == [isset |-> TRUE, n |-> n]

NoAction == [oid |-> 0, maxbytes |-> 0, mode |-> "none", truncate |-> FALSE,
             drop |-> NoDrop, scope |-> {}]

ActionObject(oid) == [oid |-> oid, maxbytes |-> 1000, mode |-> "split",
                      truncate |-> FALSE, drop |-> NoDrop, scope |-> {}]

-----------------------------------------------------------------------------
(* Group containers.  Members of a group: the eqignore'd ones (_name, the  *)
(* predicates, ignore_if_other_matches), and of the compared ones          *)
(* show_nonmatching_paths (a token), commit_subject_prefix (a unicode      *)
(* member with substitution), commit_subject_template (a unicode member    *)
(* without), max_subject_length (an int, 0 where the option is not set)   *)
(* and long_mail_action (a MailAction).                                    *)
(* private.subst is the field subst.                                       *)

RxABC == MkRx({ <<<<"a", FALSE>>, {<<"proj", <<"a">>>>}>>,
                <<<<"b", FALSE>>, {<<"proj", <<"b">>>>}>>,
                <<<<"c", TRUE>>,  {<<"proj", <<"c">>>>}>> })

RxAB == MkRx({ <<<<"a", FALSE>>, {}>>, <<<<"b", FALSE>>, {}>> })

RxBC == MkRx({ <<<<"b", FALSE>>, {}>>, <<<<"c", TRUE>>, {}>> })

RxCdir == MkRx({ <<<<"c", TRUE>>, {}>> })

RxOtherRepos == MkRx({ <<<<"other", FALSE>>, {}>> })

RxThisRepos == MkRx({ <<<<"repo", FALSE>>, {}>> })

\* the name of the [defaults] section
DEFAULTSECTION == <<"d", "e", "f", "a", "u", "l", "t", "s">>

\* the values of the [defaults] section
Defaults ==
    [ _name |-> DEFAULTSECTION,
      for_repos |-> NoRx, for_paths |-> NoRx, exclude_paths |-> NoRx,
      _def_for_repos |-> NoRx, _def_for_paths |-> NoRx,
      ignore_if_other_matches |-> FALSE,
      show_nonmatching_paths |-> "no",
      commit_subject_prefix |-> NoValue,
      commit_subject_template |-> NoValue,
      max_subject_length |-> 0,
      long_mail_action |-> ActionObject(1),
      subst |-> {} ]

SectionNames == << <<"p">>, <<"q">>, <<"r">>, <<"s">>, <<"t">> >>

\* the options a group section sets in the grouping runs
SetProfiles ==
    { [for_paths |-> NoRx, fallback |-> FALSE, xpath |-> "no",
       prefix |-> NoValue, action |-> "inherit"],
      [for_paths |-> NoRx, fallback |-> TRUE, xpath |-> "no",
       prefix |-> NoValue, action |-> "inherit"],
      [for_paths |-> RxAB, fallback |-> FALSE, xpath |-> "no",
       prefix |-> NoValue, action |-> "inherit"],
      [for_paths |-> RxAB, fallback |-> FALSE, xpath |-> "yes",
       prefix |-> NoValue, action |-> "inherit"],
      [for_paths |-> RxAB, fallback |-> FALSE, xpath |-> "ignore",
       prefix |-> MkValue(<<Ref("group")>>), action |-> "inherit"],
      [for_paths |-> RxAB, fallback |-> FALSE, xpath |-> "no",
       prefix |-> NoValue, action |-> "own"],
      [for_paths |-> RxCdir, fallback |-> FALSE, xpath |-> "no",
       prefix |-> NoValue, action |-> "inherit"] }

\* the options a group section sets in the matching runs
MatchProfiles ==
    { [for_repos |-> fr, for_paths |-> pa, exclude_paths |-> ex, fallback |-> fb] :
        fr \in {NoRx, RxOtherRepos, RxThisRepos}, pa \in {NoRx, RxABC},
        ex \in {NoRx, RxBC}, fb \in BOOLEAN }

MkSetGroup(i, prof) ==
    [Defaults EXCEPT
        !._name = SectionNames[i],
        !.for_paths = prof.for_paths,
        !.ignore_if_other_matches = prof.fallback,
        !.show_nonmatching_paths = prof.xpath,
        !.commit_subject_prefix = prof.prefix,
        !.long_mail_action =
            IF prof.action = "own" THEN ActionObject(10 + i) ELSE @]

MkMatchGroup(i, prof) ==
    [Defaults EXCEPT
        !._name = SectionNames[i],
        !.for_repos = prof.for_repos,
        !.for_paths = prof.for_paths,
        !.exclude_paths = prof.exclude_paths,
        !.ignore_if_other_matches = prof.fallback]

extractGroupSectionsBare(sections) == sections

\* ConfigFileSettings._extractGroupSections: one container per section; the
\* container of the defaults if there is no section
extractGroupSections(sections) ==
    IF sections = <<>> THEN <<Defaults>> ELSE sections

-----------------------------------------------------------------------------
(* The changes of a revision, sorted by path (Repository.getChangesList);  *)
(* a change is compared by its path (PathDescriptor.__cmp__).              *)

AllChanges == << [path |-> "a", isDir |-> FALSE],
                 [path |-> "b", isDir |-> FALSE],
                 [path |-> "c", isDir |-> TRUE],
                 [path |-> "d", isDir |-> FALSE] >>

SetMin(S) == CHOOSE x \in S : \A y \in S : x <= y

RECURSIVE SortedSeq(_)
SortedSeq(S) ==
    IF S = {} THEN <<>> ELSE <<SetMin(S)>> \o SortedSeq(S \ {SetMin(S)})

Events ==
    { [k \in 1..Cardinality(S) |-> AllChanges[SortedSeq(S)[k]]] :
        S \in {T \in SUBSET (1..Len(AllChanges)) : Cardinality(T) <= MaxChanges} }

SeqRange(s) == {s[k] : k \in 1..Len(s)}

-----------------------------------------------------------------------------
(* Main._getDefaultSubst.  No modelled group sets extract_x509_author.     *)

getDefaultSubst(group, repos_path, path) ==
    LET subst == { <<"author", RuntimeAuthor>>,
                   <<"group", group._name>>,
                   <<"property", RuntimeProperty>>,
                   <<"revision", RuntimeRevision>> }
        subst1 == IF group._def_for_repos.isset
                     /\ RxMatch(group._def_for_repos, repos_path)
                  THEN DictUpdate(subst, RxGroupDict(group._def_for_repos, repos_path))
                  ELSE subst
    IN  IF group._def_for_paths.isset /\ RxMatch(group._def_for_paths, path)
        THEN DictUpdate(subst1, RxGroupDict(group._def_for_paths, path))
        ELSE subst1

\* "we guarantee, that directories end with a slash"
PathStringBare(change) == <<change.path, FALSE>>

\* "%s%s" % (change.path, ["", "/"][change.isDirectory()])
PathString(change) == <<change.path, change.isDir>>

\* The body of the loop over settings.groups in Main._getGroupsByChange for
\* one group: whether the loop reaches the end of the body (no continue),
\* and the substitution dict at that point.
MatchGroup(group, repos_path, path) ==
    LET subst == getDefaultSubst(group, repos_path, path)
        reposHit == group.for_repos.isset /\ RxMatch(group.for_repos, repos_path)
        reposMiss == group.for_repos.isset /\ ~RxMatch(group.for_repos, repos_path)
        subst1 == IF reposHit
                  THEN DictUpdate(subst, RxGroupDict(group.for_repos, repos_path))
                  ELSE subst
        excluded == group.exclude_paths.isset /\ RxMatch(group.exclude_paths, path)
        pathsHit == group.for_paths.isset /\ RxMatch(group.for_paths, path)
        pathsMiss == group.for_paths.isset /\ ~RxMatch(group.for_paths, path)
        subst2 == IF pathsHit
                  THEN DictUpdate(subst1, RxGroupDict(group.for_paths, path))
                  ELSE subst1
    IN  [applies |-> ~reposMiss /\ ~excluded /\ ~pathsMiss, subst |-> subst2]

\* (selected_groups, ignored_groups)[bool(group.ignore_if_other_matches)]
RouteGroup(lists, i, group) ==
    IF group.ignore_if_other_matches
    THEN [lists EXCEPT !.ignored = Append(@, i)]
    ELSE [lists EXCEPT !.selected = Append(@, i)]

RECURSIVE GroupLoopStoreFirst(_, _, _, _, _)
GroupLoopStoreFirst(gs, i, repos_path, path, lists) ==
    IF i > Len(gs) THEN [groups |-> gs, lists |-> lists]
    ELSE LET r == MatchGroup(gs[i], repos_path, path)
             stored == [gs EXCEPT ![i].subst = DictUpdate(@, r.subst)]
         IN  IF ~r.applies
             THEN GroupLoopStoreFirst(stored, i + 1, repos_path, path, lists)
             ELSE GroupLoopStoreFirst(stored, i + 1, repos_path, path,
                                      RouteGroup(lists, i, gs[i]))

\* the loop over settings.groups; a group is named by its index, its identity
RECURSIVE GroupLoop(_, _, _, _, _)
GroupLoop(gs, i, repos_path, path, lists) ==
    IF i > Len(gs) THEN [groups |-> gs, lists |-> lists]
    ELSE LET r == MatchGroup(gs[i], repos_path, path)
         IN  IF ~r.applies
             THEN GroupLoop(gs, i + 1, repos_path, path, lists)
             ELSE GroupLoop([gs EXCEPT ![i].subst = DictUpdate(@, r.subst)],
                            i + 1, repos_path, path, RouteGroup(lists, i, gs[i]))

SelectResultBoth(lists) == lists.selected \o lists.ignored

\* return selected_groups and selected_groups or ignored_groups
SelectResult(lists) ==
    IF lists.selected # <<>> THEN lists.selected ELSE lists.ignored

getGroupsByChange(gs, change) ==
    LET r == GroupLoop(gs, 1, ReposPath, PathString(change),
                       [selected |-> <<>>, ignored |-> <<>>])
    IN  [groups |-> r.groups, result |-> SelectResult(r.lists)]

-----------------------------------------------------------------------------
(* StructCreator._generateEq: the members outside eqignore, each read with *)
(* getattr (Descriptor.__get__: substitution for the members that ask for  *)
(* it) and compared with !=.                                               *)

ComparedMembers ==
    {"show_nonmatching_paths", "commit_subject_prefix",
     "commit_subject_template", "max_subject_length", "long_mail_action"}

GetAttr(group, name) ==
    CASE name = "show_nonmatching_paths" -> group.show_nonmatching_paths
      [] name = "commit_subject_prefix" ->
            substitute(group.commit_subject_prefix, group.subst)
      [] name = "commit_subject_template" -> group.commit_subject_template
      [] name = "max_subject_length" -> group.max_subject_length
      [] name = "long_mail_action" -> group.long_mail_action

\* a != b; objects of a class without __eq__ differ unless they are the same
NotEqual(name, a, b) ==
    IF name = "long_mail_action" THEN a.oid # b.oid ELSE a # b

GroupEq(this, other) ==
    \A name \in ComparedMembers :
        ~NotEqual(name, GetAttr(this, name), GetAttr(other, name))

-----------------------------------------------------------------------------
(* GroupSet.__init__ *)

NewGroupSetAll(gs, grouplist, changelist, allchanges) ==
    LET nongroups == gs[grouplist[1]].show_nonmatching_paths
    IN  [ groups |-> grouplist,
          changes |-> changelist,
          xchanges |->
            IF nongroups = "ignore" THEN [isset |-> FALSE, list |-> <<>>]
            ELSE IF nongroups = "yes"
            THEN [isset |-> TRUE, list |-> allchanges]
            ELSE [isset |-> TRUE, list |-> <<>>] ]

NewGroupSet(gs, grouplist, changelist, allchanges) ==
    LET nongroups == gs[grouplist[1]].show_nonmatching_paths
    IN  [ groups |-> grouplist,
          changes |-> changelist,
          xchanges |->
            IF nongroups = "ignore" THEN [isset |-> FALSE, list |-> <<>>]
            ELSE IF nongroups = "yes"
            THEN [isset |-> TRUE,
                  list |-> SelectSeq(allchanges,
                              LAMBDA c : \A k \in 1..Len(changelist) :
                                            changelist[k].path # c.path)]
            ELSE [isset |-> TRUE, list |-> <<>>] ]

-----------------------------------------------------------------------------
(* Main._getGroupSets *)

AddChangeOnce(dict, groupid, change) ==
    IF groupid \in DictKeys(dict)
    THEN dict
    ELSE dict \cup {<<groupid, <<change>>>>}

\* group_changes[groupid].append(change), or group_changes[groupid] = [change]
AddChange(dict, groupid, change) ==
    IF groupid \in DictKeys(dict)
    THEN DictUpdate(dict, {<<groupid, Append(DictGet(dict, groupid), change)>>})
    ELSE dict \cup {<<groupid, <<change>>>>}

RECURSIVE AddChangeAll(_, _, _)
AddChangeAll(dict, grouplist, change) ==
    IF grouplist = <<>> THEN dict
    ELSE AddChangeAll(AddChange(dict, Head(grouplist), change),
                      Tail(grouplist), change)

\* the orders in which group_changes.items() may list the dict
ItemOrders(dict) ==
    { s \in [1..Cardinality(dict) -> dict] :
        \A i, j \in 1..Cardinality(dict) : i # j => s[i] # s[j] }

FirstFitOneWay(gs, sets, groupid, changelist) ==
    LET fits == { k \in 1..Len(sets) :
                    /\ sets[k].changes = changelist
                    /\ sets[k].groups[1] < groupid }
    IN  IF fits = {} THEN 0 ELSE SetMin(fits)

\* the index of the first stored set the group is merged into, 0 if none
FirstFit(gs, sets, groupid, changelist) ==
    LET fits == { k \in 1..Len(sets) :
                    /\ sets[k].changes = changelist
                    /\ GroupEq(gs[sets[k].groups[1]], gs[groupid]) }
    IN  IF fits = {} THEN 0 ELSE SetMin(fits)

RECURSIVE BuildLoop(_, _, _, _)
BuildLoop(gs, items, sets, allchanges) ==
    IF items = <<>> THEN sets
    ELSE LET groupid == Head(items)[1]
             changelist == Head(items)[2]
             k == FirstFit(gs, sets, groupid, changelist)
         IN  IF k # 0
             THEN BuildLoop(gs, Tail(items),
                            [sets EXCEPT ![k].groups = Append(@, groupid)],
                            allchanges)
             ELSE BuildLoop(gs, Tail(items),
                            Append(sets, NewGroupSet(gs, <<groupid>>, changelist,
                                                     allchanges)),
                            allchanges)

\* one turn of "for change in changes"
ClassifyChange ==
    /\ gpc = "collect"
    /\ cidx <= Len(changes)
    /\ LET r == getGroupsByChange(groups, changes[cidx])
       IN  /\ groups' = r.groups
           /\ returned' = r.result
           /\ group_changes' = AddChangeAll(group_changes, r.result, changes[cidx])
    /\ cidx' = cidx + 1
    /\ gpc' = IF cidx = Len(changes) THEN "build" ELSE "collect"
    /\ UNCHANGED <<changes, group_sets, notGrouping>>

\* "Build the groupset": the loop over group_changes.items()
BuildGroupSets ==
    /\ gpc = "build"
    /\ \E items \in ItemOrders(group_changes) :
          group_sets' = BuildLoop(groups, items, <<>>, changes)
    /\ gpc' = "done"
    /\ UNCHANGED <<groups, changes, cidx, group_changes, returned, notGrouping>>

-----------------------------------------------------------------------------
(* Python strings and files *)

\* str.count('\n')
CountNewlines(s) == Cardinality({k \in 1..Len(s) : s[k] = "\n"})

\* s[-1:]
LastChar(s) == IF s = <<>> THEN "" ELSE s[Len(s)]

\* s[n:]
From(s, n) == SubSeq(s, n + 1, Len(s))

\* s.splitlines(True), for text whose only line break is "\n"
RECURSIVE splitlines(_)
splitlines(s) ==
    IF s = <<>> THEN <<>>
    ELSE LET brk == {k \in 1..Len(s) : s[k] = "\n"}
             n == IF brk = {} THEN Len(s) ELSE SetMin(brk)
         IN  <<SubSeq(s, 1, n)>> \o splitlines(From(s, n))

\* "%d" % n
RECURSIVE Decimal(_)
Decimal(n) ==
    LET digit == <<"0", "1", "2", "3", "4", "5", "6", "7", "8", "9">>[(n % 10) + 1]
    IN  IF n < 10 THEN <<digit>> ELSE Decimal(n \div 10) \o <<digit>>

\* a StringIO: the buffer and the file position
EmptyFile == [buf |-> <<>>, pos |-> 0]

FileWrite(f, s) ==
    [buf |-> SubSeq(f.buf, 1, f.pos) \o s \o From(f.buf, f.pos + Len(s)),
     pos |-> f.pos + Len(s)]

\* seek(0)
FileRewind(f) == [f EXCEPT !.pos = 0]

\* truncate(), at the file position
FileTruncate(f) == [f EXCEPT !.buf = SubSeq(f.buf, 1, f.pos)]

\* no TruncatingStream is in use
TruncIdle ==
    /\ tstream = [maxsize |-> 0, add_note |-> FALSE, current |-> 0,
                  trunced |-> 0, lastchar |-> "\n", stream |-> EmptyFile]
    /\ tops = 0
    /\ written_log = <<>>
    /\ passed_log = <<>>
    /\ dropped_log = <<>>

\* SplittingStream.__init__
NewSplittingStream == [current |-> 0, buf |-> <<>>, tempfiles |-> <<>>]

\* the counters of a TruncatingStream after __init__ and after seek(0)
NewCounters == [current |-> 0, trunced |-> 0, lastchar |-> "\n"]

\* no mail is being composed
SplitIdle ==
    /\ spc = "idle"
    /\ fp = <<>>
    /\ fp_t = NewCounters
    /\ final_fp = NewSplittingStream
    /\ drop_fp = <<>>
    /\ drop_t = NewCounters
    /\ diff_file_list = <<>>
    /\ ndiffs = 0
    /\ rendered = <<>>
    /\ nummails = 0
    /\ mails = <<>>

\* the browser options: browser_base_url ("none" when not specified,
\* "empty" for an empty value, else the browser type), viewcvs_base_url, and
\* the url templates of the generic generator that are configured
NoBrowser == [browser_base_url |-> "none", viewcvs_base_url |-> FALSE,
              templates |-> {}]

\* no mail is being composed by a URLDecorator
UrlIdle ==
    /\ upc = "idle"
    /\ browser = NoBrowser
    /\ ufp = [maxsize |-> 0, add_note |-> FALSE, current |-> 0,
              trunced |-> 0, lastchar |-> "\n", stream |-> EmptyFile]
    /\ url_fp = [trunc |-> FALSE, st |-> ufp]
    /\ udiffs = 0
    /\ ulog = <<>>
    /\ replaced = FALSE
    /\ ubody = <<>>

\* getMailSubject is not running
SubjectIdle ==
    /\ jpc = "idle"
    /\ changeset = {}
    /\ group0 = [max_subject_length |-> 0, subject_prefix |-> <<>>,
                 subject_template |-> [isset |-> FALSE, t |-> <<>>],
                 subst |-> {}]
    /\ countprefix = <<>>
    /\ subject = <<>>

\* no notifier is sending mails
SendIdle ==
    /\ nparts = 0
    /\ part = 0
    /\ transport = <<>>

\* no notifier is being set up
DecorateIdle ==
    /\ mode = "commit"
    /\ action = NoAction
    /\ notifier = [made |-> FALSE, cls |-> <<>>, maxsize |-> 0, drop |-> NoDrop]

\* Main.run is not running
RunIdle ==
    /\ rpc = "idle"
    /\ repos = "none"
    /\ nsets = 0
    /\ gsidx = 0
    /\ notifiers = 0
    /\ nidx = 0
    /\ notifier_errors = <<>>
    /\ result = "running"
    /\ attempted = {}
    /\ selected = {}

GroupingStart(gs, event) ==
    /\ UrlIdle
    /\ SubjectIdle
    /\ SendIdle
    /\ SplitIdle
    /\ RunIdle
    /\ TruncIdle
    /\ DecorateIdle
    /\ groups = gs
    /\ changes = event
    /\ gpc = IF event = <<>> THEN "build" ELSE "collect"
    /\ cidx = 1
    /\ group_changes = {}
    /\ returned = <<>>
    /\ group_sets = <<>>

\* the sections of the configuration file, as read by the settings loader
SetConfigs ==
    UNION { { [i \in 1..n |-> MkSetGroup(i, f[i])] : f \in [1..n -> SetProfiles] } :
            n \in 0..MaxGroups }

MatchConfigs ==
    UNION { { [i \in 1..n |-> MkMatchGroup(i, f[i])] : f \in [1..n -> MatchProfiles] } :
            n \in 0..MaxMatchGroups }

InitSets ==
    \E sections \in SetConfigs, event \in Events :
        GroupingStart(extractGroupSections(sections), event)

InitMatch ==
    \E sections \in MatchConfigs, event \in Events :
        GroupingStart(extractGroupSections(sections), event)

NextGrouping ==
    \/ ClassifyChange
    \/ BuildGroupSets

SpecSets == InitSets /\ [][NextGrouping]_vars

SpecMatch == InitMatch /\ [][NextGrouping]_vars

-----------------------------------------------------------------------------
(* Properties of the classification *)

\* the groups (by index) whose three predicates accept the change
Applying(change) ==
    { i \in 1..Len(groups) :
        MatchGroup(groups[i], ReposPath, PathString(change)).applies }

Primary(change) ==
    { i \in Applying(change) : ~groups[i].ignore_if_other_matches }

Fallback(change) ==
    { i \in Applying(change) : groups[i].ignore_if_other_matches }

\* seq lists exactly the members of S, each once
IsListOf(seq, S) == SeqRange(seq) = S /\ Len(seq) = Cardinality(S)

\* the change the last call of _getGroupsByChange was made for
LastChange == changes[cidx - 1]

\* C1: for one change _getGroupsByChange returns exactly the applying groups
\* with ignore_if_other_matches false when there is one, otherwise exactly
\* the applying groups with the flag true; the result is empty only when no
\* group applies.
C1_SelectedOrFallback ==
    cidx > 1 =>
        /\ Primary(LastChange) # {} => IsListOf(returned, Primary(LastChange))
        /\ Primary(LastChange) = {} => IsListOf(returned, Fallback(LastChange))
        /\ returned = <<>> <=> Applying(LastChange) = {}

\* a primary and a fallback group both apply to the change just classified
C1_Witness ==
    /\ cidx > 1
    /\ Primary(LastChange) # {}
    /\ Fallback(LastChange) # {}
    /\ returned # <<>>

\* the change list collected for a group, <<>> if the group matched nothing
ChangeListOf(i) ==
    IF i \in DictKeys(group_changes) THEN DictGet(group_changes, i) ELSE <<>>

Matched == DictKeys(group_changes)

SameGroupSet(i, j) ==
    \E k \in 1..Len(group_sets) :
        {i, j} \subseteq SeqRange(group_sets[k].groups)

\* the settings of a MailAction: everything but the identity of the object
ActionValue(a) ==
    [maxbytes |-> a.maxbytes, mode |-> a.mode, truncate |-> a.truncate,
     drop |-> a.drop, scope |-> a.scope]

\* equal by value on every member outside eqignore
ValueEqual(a, b) ==
    /\ a.show_nonmatching_paths = b.show_nonmatching_paths
    /\ substitute(a.commit_subject_prefix, a.subst)
         = substitute(b.commit_subject_prefix, b.subst)
    /\ ActionValue(a.long_mail_action) = ActionValue(b.long_mail_action)

\* two groups whose sections hold the same options
DifferOnlyInName(a, b) ==
    /\ [a EXCEPT !._name = <<>>, !.subst = {}, !.long_mail_action = NoAction]
         = [b EXCEPT !._name = <<>>, !.subst = {}, !.long_mail_action = NoAction]
    /\ ActionValue(a.long_mail_action) = ActionValue(b.long_mail_action)

\* C2: two matched groups are in the same GroupSet exactly when their change
\* lists are identical and they are equal by value on every compared member;
\* two groups that differ only in their name and match the same three
\* changes give exactly one GroupSet, with both groups and the three changes.
C2_MergedIffEqual ==
    gpc = "done" =>
        /\ \A i, j \in Matched :
              SameGroupSet(i, j) <=>
                  /\ ChangeListOf(i) = ChangeListOf(j)
                  /\ ValueEqual(groups[i], groups[j])
        /\ ( /\ Len(groups) = 2
             /\ DifferOnlyInName(groups[1], groups[2])
             /\ ChangeListOf(1) = changes
             /\ ChangeListOf(2) = changes
             /\ Len(changes) = 3 )
           => /\ Len(group_sets) = 1
              /\ SeqRange(group_sets[1].groups) = {1, 2}
              /\ group_sets[1].changes = changes

\* settings.groups holds only the group made of the [defaults] section
DefaultOnly == Len(groups) = 1 /\ groups[1]._name = DEFAULTSECTION

NoGroupApplies == \A k \in 1..Len(changes) : Applying(changes[k]) = {}

-----------------------------------------------------------------------------
(* Main.run.  The GroupSets are named 1..nsets, the notifiers of a         *)
(* GroupSet 1..notifiers.                                                  *)

\* _getGroupSets is not running
GroupingIdle ==
    /\ groups = <<>>
    /\ changes = <<>>
    /\ gpc = "idle"
    /\ cidx = 0
    /\ group_changes = {}
    /\ returned = <<>>
    /\ group_sets = <<>>

\* throwables = (KeyboardInterrupt, SystemExit, subversion.Error)
throwables == {"KeyboardInterrupt", "SystemExit", "subversion.Error"}

\* what notifier.run() may do: return, or raise one of these
RunOutcomes == {"ok", "Exception"} \cup throwables

\* "self._settings.runtime._repos.close()": what becomes of the repository,
\* and the exception raised; without a repository object the attribute
\* lookup raises AttributeError
reposClose(r) ==
    IF r = "none" THEN [repos |-> r, exc |-> "AttributeError"]
    ELSE [repos |-> "closed", exc |-> "none"]

closeRepositoryUncaught(r) == reposClose(r)

\* Main._closeRepository: close() of the repository object; the
\* AttributeError of a missing one is passed over
closeRepository(r) ==
    IF reposClose(r).exc = "AttributeError"
    THEN [reposClose(r) EXCEPT !.exc = "none"]
    ELSE reposClose(r)

\* the finally clause of run: an exception of _closeRepository replaces the
\* way run was about to end
Finally(ending) ==
    /\ result' = IF closeRepository(repos).exc # "none"
                 THEN closeRepository(repos).exc
                 ELSE ending
    /\ repos' = closeRepository(repos).repos
    /\ rpc' = "done"

ReraisedAsIs(exc) == exc

\* "except subversion.Error, exc: raise subversion.RepositoryError"
Reraised(exc) == IF exc = "subversion.Error" THEN "RepositoryError" ELSE exc

\* an exception leaves run through the except clause and the finally clause
Leave(exc) == Finally(Reraised(exc))

\* self._openRepository()
OpenRepository ==
    /\ rpc = "open"
    /\ \/ /\ repos' = "open"
          /\ rpc' = "groupsets"
          /\ UNCHANGED result
       \/ Leave("subversion.Error")
    /\ UNCHANGED <<nsets, gsidx, notifiers, nidx, notifier_errors, attempted,
                   selected, notRun>>

\* notifier_errors = []; selector = ...; the call of self._getGroupSets()
GetGroupSets ==
    /\ rpc = "groupsets"
    /\ \/ /\ gsidx' = 1
          /\ rpc' = IF nsets = 0 THEN "finish" ELSE "select"
          /\ UNCHANGED <<result, repos>>
       \/ /\ Leave("subversion.Error")
          /\ UNCHANGED gsidx
    /\ UNCHANGED <<nsets, notifiers, nidx, notifier_errors, attempted,
                   selected, notRun>>

\* notifiers = selector.selectNotifiers(groupset): the notifiers are
\* constructed here; MultiMailNotifier.__init__ raises InvalidMailOption
SelectNotifiers ==
    /\ rpc = "select"
    /\ selected' = selected \cup {gsidx}
    /\ \/ \E k \in 1..MaxNotifiers :
            /\ notifiers' = k
            /\ nidx' = 1
            /\ rpc' = "run"
            /\ UNCHANGED <<result, repos>>
       \/ /\ Leave("InvalidMailOption")
          /\ UNCHANGED <<notifiers, nidx>>
    /\ UNCHANGED <<nsets, gsidx, notifier_errors, attempted, notRun>>

\* the end of one turn of "for notifier in notifiers"
NextNotifier ==
    /\ IF nidx < notifiers
       THEN nidx' = nidx + 1 /\ UNCHANGED <<gsidx, rpc>>
       ELSE /\ nidx' = 0
            /\ gsidx' = gsidx + 1
            /\ rpc' = IF gsidx < nsets THEN "select" ELSE "finish"
    /\ UNCHANGED <<result, repos>>

\* try: notifier.run() except throwables: raise except: ...append(...)
RunNotifier ==
    /\ rpc = "run"
    /\ attempted' = attempted \cup {<<gsidx, nidx>>}
    /\ \E o \in RunOutcomes :
          CASE o = "ok" ->
                  /\ NextNotifier
                  /\ UNCHANGED notifier_errors
            [] o \in throwables ->
                  /\ Leave(o)
                  /\ UNCHANGED <<gsidx, nidx, notifier_errors>>
            [] OTHER ->
                  /\ notifier_errors' = Append(notifier_errors, <<gsidx, nidx>>)
                  /\ NextNotifier
    /\ UNCHANGED <<nsets, notifiers, selected, notRun>>

\* if notifier_errors: raise NotifierError(*notifier_errors); finally: close
FinishRun ==
    /\ rpc = "finish"
    /\ IF notifier_errors # <<>>
       THEN Leave("NotifierError")
       ELSE Finally("returned")
    /\ UNCHANGED <<nsets, gsidx, notifiers, nidx, notifier_errors, attempted,
                   selected, notRun>>

InitRun ==
    /\ UrlIdle
    /\ SubjectIdle
    /\ SendIdle
    /\ SplitIdle
    /\ GroupingIdle
    /\ TruncIdle
    /\ DecorateIdle
    /\ rpc = "open"
    /\ repos = "none"
    /\ nsets \in 0..MaxSets
    /\ gsidx = 0
    /\ notifiers = 0
    /\ nidx = 0
    /\ notifier_errors = <<>>
    /\ result = "running"
    /\ attempted = {}
    /\ selected = {}

NextRun ==
    \/ OpenRepository
    \/ GetGroupSets
    \/ SelectNotifiers
    \/ RunNotifier
    \/ FinishRun

SpecRun == InitRun /\ [][NextRun]_vars

\* the notifiers whose run() raised an exception that run() records
FailedNotifiers == SeqRange(notifier_errors)

\* run ended otherwise than by a repository error or an interruption
EndedUninterrupted ==
    /\ rpc = "done"
    /\ result \notin {"RepositoryError", "KeyboardInterrupt", "SystemExit"}

\* C4: unless a repository error, KeyboardInterrupt or SystemExit ends the
\* run, every GroupSet is handled and every selected notifier is run,
\* whatever exception the handling of another GroupSet raised; the run then
\* ends with one NotifierError carrying one record per failed notifier, and
\* without an error when no notifier failed.
C4_FailuresIsolated ==
    EndedUninterrupted =>
        /\ selected = 1..nsets
        /\ result \in {"returned", "NotifierError"}
        /\ result = "NotifierError" <=> notifier_errors # <<>>
        /\ Len(notifier_errors) = Cardinality(FailedNotifiers)
        /\ FailedNotifiers \subseteq attempted

-----------------------------------------------------------------------------
(* stream.TruncatingStream *)

\* TruncatingStream.__init__
NewTruncatingStream(stream, maxsize, add_note) ==
    [maxsize |-> maxsize, add_note |-> add_note, current |-> 0,
     trunced |-> 0, lastchar |-> "\n", stream |-> stream]

\* the loop "for line in towrite.splitlines(True)" of write: the counter
\* current, the count written, the lines passed on, and whether the loop was
\* left with break
RECURSIVE WriteLines(_, _, _, _, _)
WriteLines(lines, maxsize, current, written, passed) ==
    IF lines = <<>>
    THEN [current |-> current, written |-> written, passed |-> passed,
          broke |-> FALSE]
    ELSE IF current + Len(Head(lines)) <= maxsize
    THEN WriteLines(Tail(lines), maxsize, current + Len(Head(lines)),
                    written + Len(Head(lines)), passed \o Head(lines))
    ELSE [current |-> current + Len(Head(lines)), written |-> written,
          passed |-> passed, broke |-> TRUE]

TruncWriteForgetful(st, towrite) ==
    LET loop == IF st.current <= st.maxsize
                THEN WriteLines(splitlines(towrite), st.maxsize, st.current,
                                0, <<>>)
                ELSE [current |-> st.current, written |-> 0,
                      passed |-> <<>>, broke |-> FALSE]
        rest == IF loop.broke THEN From(towrite, loop.written) ELSE towrite
        over == loop.current > st.maxsize
    IN  [ st |-> [st EXCEPT
                    !.current = @ + Len(loop.passed),
                    !.trunced = IF over THEN @ + CountNewlines(rest) ELSE @,
                    !.lastchar = IF over THEN LastChar(rest) ELSE @,
                    !.stream = FileWrite(@, loop.passed)],
          passed |-> loop.passed ]

\* TruncatingStream.write: the stream afterwards, and the text passed on
TruncWrite(st, towrite) ==
    LET loop == IF st.current <= st.maxsize
                THEN WriteLines(splitlines(towrite), st.maxsize, st.current,
                                0, <<>>)
                ELSE [current |-> st.current, written |-> 0,
                      passed |-> <<>>, broke |-> FALSE]
        rest == IF loop.broke THEN From(towrite, loop.written) ELSE towrite
        over == loop.current > st.maxsize
    IN  [ st |-> [st EXCEPT
                    !.current = loop.current,
                    !.trunced = IF over THEN @ + CountNewlines(rest) ELSE @,
                    !.lastchar = IF over THEN LastChar(rest) ELSE @,
                    !.stream = FileWrite(@, loop.passed)],
          passed |-> loop.passed ]

getTruncatedLineCountBare(st) == st.trunced

\* TruncatingStream.getTruncatedLineCount
getTruncatedLineCount(st) ==
    st.trunced + (IF st.lastchar # "\n" THEN 1 ELSE 0)

\* "\n[... %d lines stripped ...]\n"
StrippedNote(num) ==
    <<"\n", "[... ">> \o Decimal(num) \o <<" lines stripped ...]", "\n">>

\* TruncatingStream.getvalue
getvalue(st) ==
    IF st.add_note /\ getTruncatedLineCount(st) # 0
    THEN st.stream.buf \o StrippedNote(getTruncatedLineCount(st))
    ELSE st.stream.buf

\* the texts of a write call
Chars == {"a", "\n"}

Texts == UNION { [1..n -> Chars] : n \in 0..MaxWriteLen }

\* write(towrite)
Write ==
    /\ tops < MaxCalls
    /\ \E towrite \in Texts :
          LET r == TruncWrite(tstream, towrite)
          IN  /\ tstream' = r.st
              /\ written_log' = written_log \o towrite
              /\ passed_log' = passed_log \o r.passed
              /\ dropped_log' = dropped_log \o From(towrite, Len(r.passed))
    /\ tops' = tops + 1
    /\ UNCHANGED notTrunc

\* seek(0)
Seek ==
    /\ tops < MaxCalls
    /\ tstream' = [tstream EXCEPT !.current = 0, !.trunced = 0,
                                  !.lastchar = "\n",
                                  !.stream = FileRewind(@)]
    /\ written_log' = <<>>
    /\ passed_log' = <<>>
    /\ dropped_log' = <<>>
    /\ tops' = tops + 1
    /\ UNCHANGED notTrunc

\* truncate(), delegated to the wrapped stream by _BaseStream.__getattr__
Truncate ==
    /\ tops < MaxCalls
    /\ tstream' = [tstream EXCEPT !.stream = FileTruncate(@)]
    /\ tops' = tops + 1
    /\ UNCHANGED <<written_log, passed_log, dropped_log, notTrunc>>

InitTrunc ==
    /\ UrlIdle
    /\ SubjectIdle
    /\ SendIdle
    /\ SplitIdle
    /\ GroupingIdle
    /\ RunIdle
    /\ DecorateIdle
    /\ \E maxsize \in 1..MaxSize, add_note \in BOOLEAN :
          tstream = NewTruncatingStream(EmptyFile, maxsize, add_note)
    /\ tops = 0
    /\ written_log = <<>>
    /\ passed_log = <<>>
    /\ dropped_log = <<>>

NextTrunc ==
    \/ Write
    \/ Seek
    \/ Truncate

SpecTrunc == InitTrunc /\ [][NextTrunc]_vars

\* the stripped-lines note is appended to the content
NoteAppended ==
    getvalue(tstream)
        = tstream.stream.buf \o StrippedNote(getTruncatedLineCount(tstream))

\* C6: for a stream made as the Truncate decorator makes it (add_note set):
\* when the text written amounts to at most maxsize bytes, the reported
\* count of dropped lines is 0 and getvalue appends no note; when it amounts
\* to more, the count is at least 1 and getvalue appends the note.
C6_NoteIffOverLimit ==
    tstream.add_note =>
        /\ Len(written_log) <= tstream.maxsize =>
              /\ getTruncatedLineCount(tstream) = 0
              /\ getvalue(tstream) = tstream.stream.buf
        /\ Len(written_log) > tstream.maxsize =>
              /\ getTruncatedLineCount(tstream) >= 1
              /\ NoteAppended

\* the text written exceeds the limit by an unterminated line only
C6_Witness ==
    /\ tstream.add_note
    /\ Len(written_log) > tstream.maxsize
    /\ dropped_log # <<>>
    /\ CountNewlines(dropped_log) = 0
    /\ NoteAppended

\* the lines of a text: the terminated ones, and a last unterminated one
LineCount(text) ==
    CountNewlines(text) + (IF LastChar(text) \notin {"", "\n"} THEN 1 ELSE 0)

\* C7: after any sequence of writes the reported count of dropped lines is
\* the number of lines of the text that was not passed through: its
\* newline-terminated lines, plus one if it ends in an unterminated line.
C7_ExactDroppedLines ==
    getTruncatedLineCount(tstream) = LineCount(dropped_log)

-----------------------------------------------------------------------------
(* notifier._textmail.decorateNotifier.  A class is the list of the names   *)
(* of its method resolution order, the class itself first.                 *)

MODES == {"commit", "propchange", "lock", "unlock"}

\* the MailAction objects MailAction.__init__ accepts, with a size up to
\* MaxSize and a drop number up to MaxDrop
MailActions ==
    { [oid |-> 1, maxbytes |-> mb, mode |-> md, truncate |-> tr, drop |-> dr,
       scope |-> sc] :
        mb \in 0..MaxSize, md \in {"truncate", "showurls", "split"},
        tr \in BOOLEAN,
        dr \in {NoDrop} \cup {MkDrop(n) : n \in 0..MaxDrop},
        sc \in SUBSET {"revprop-changes", "locks"} }

Parseable(a) ==
    /\ a.truncate => a.mode \in {"showurls", "split"}
    /\ a.drop.isset => a.mode = "split"

TextMailNotifier == <<"TextMailNotifier">>

inheritUnder(cls, base) == base \o <<cls>>

\* util.inherit(cls, base)
inherit(cls, base) == <<cls>> \o base

\* decorator(config, groupset, action.maxbytes, action.drop) / cls(config, groupset)
Construct(cls, maxsize, drop) ==
    [made |-> TRUE, cls |-> cls, maxsize |-> maxsize, drop |-> drop]

\* the branch of decorateNotifier for an action with a size, in its scope:
\* the decorator class, <<>> for None
decoratorFor(cls, a, is_commit) ==
    CASE a.mode = "truncate" -> inherit("TruncatingDecorator", cls)
      [] a.mode = "showurls" ->
            LET d1 == IF is_commit THEN inherit("URLDecorator", cls) ELSE <<>>
            IN  IF a.truncate
                THEN inherit(IF is_commit THEN "URLTruncatingDecorator"
                             ELSE "TruncatingDecorator",
                             IF d1 # <<>> THEN d1 ELSE cls)
                ELSE d1
      [] a.mode = "split" ->
            LET d1 == IF a.truncate THEN inherit("TruncatingDecorator", cls)
                      ELSE <<>>
            IN  IF is_commit
                THEN inherit("SplittingDecorator", IF d1 # <<>> THEN d1 ELSE cls)
                ELSE d1
      [] OTHER -> <<>>

decorateNotifierAnyEvent(cls, a, runtime_mode) ==
    LET is_commit == runtime_mode = "commit"
        decorator == IF a # NoAction /\ a.maxbytes # 0
                     THEN decoratorFor(cls, a, is_commit)
                     ELSE <<>>
    IN  IF decorator # <<>>
        THEN Construct(decorator, a.maxbytes, a.drop)
        ELSE Construct(cls, 0, NoDrop)

decorateNotifier(cls, a, runtime_mode) ==
    LET is_commit == runtime_mode = "commit"
        other == \/ "revprop-changes" \in a.scope /\ runtime_mode = "propchange"
                 \/ "locks" \in a.scope /\ runtime_mode \in {"lock", "unlock"}
        decorator == IF a # NoAction /\ a.maxbytes # 0 /\ (is_commit \/ other)
                     THEN decoratorFor(cls, a, is_commit)
                     ELSE <<>>
    IN  IF decorator # <<>>
        THEN Construct(decorator, a.maxbytes, a.drop)
        ELSE Construct(cls, 0, NoDrop)

\* _textmail.getNotifier
GetNotifier ==
    /\ ~notifier.made
    /\ notifier' = decorateNotifier(TextMailNotifier, action, mode)
    /\ UNCHANGED <<mode, action, notDecorate>>

InitDecorate ==
    /\ UrlIdle
    /\ SubjectIdle
    /\ SendIdle
    /\ SplitIdle
    /\ GroupingIdle
    /\ RunIdle
    /\ TruncIdle
    /\ mode \in MODES
    /\ action \in {NoAction} \cup {a \in MailActions : Parseable(a)}
    /\ notifier = [made |-> FALSE, cls |-> <<>>, maxsize |-> 0, drop |-> NoDrop]

NextDecorate == GetNotifier

SpecDecorate == InitDecorate /\ [][NextDecorate]_vars

\* the decorators of the notifier made, outermost first
Decorators == SubSeq(notifier.cls, 1, Len(notifier.cls) - 1)

\* the event is one the action is applied to besides commits
InScope ==
    \/ mode = "propchange" /\ "revprop-changes" \in action.scope
    \/ mode \in {"lock", "unlock"} /\ "locks" \in action.scope

\* the decorators the table gives for a commit
CommitDecorators ==
    CASE action.mode = "truncate" -> <<"TruncatingDecorator">>
      [] action.mode = "showurls" ->
            IF action.truncate THEN <<"URLTruncatingDecorator", "URLDecorator">>
            ELSE <<"URLDecorator">>
      [] action.mode = "split" ->
            IF action.truncate
            THEN <<"SplittingDecorator", "TruncatingDecorator">>
            ELSE <<"SplittingDecorator">>

\* C8 as stated: with maxbytes > 0 a commit gets the decorators of its mode
\* (with the truncating one iff the truncate submode is set), and a
\* propchange, lock or unlock event in the scope of the action gets the
\* truncating decorator for every mode, with or without the submode.
C8_DecoratorTable ==
    (notifier.made /\ action.maxbytes > 0) =>
        /\ mode = "commit" => Decorators = CommitDecorators
        /\ (mode # "commit" /\ InScope) => Decorators = <<"TruncatingDecorator">>

\* C8: with maxbytes > 0 a commit gets the decorators of its mode (with the
\* truncating one iff the truncate submode is set); a propchange, lock or
\* unlock event in the scope of the action gets the truncating decorator
\* when the mode is truncate or the truncate submode is set, and no
\* decorator at all when the mode is showurls or split without the submode.
C8_DecoratorTableBySubmode ==
    (notifier.made /\ action.maxbytes > 0) =>
        /\ mode = "commit" => Decorators = CommitDecorators
        /\ (mode # "commit" /\ InScope) =>
              Decorators = IF action.mode = "truncate" \/ action.truncate
                           THEN <<"TruncatingDecorator">>
                           ELSE <<>>

\* a lock event in scope, mode split without the submode: no decorator
C8_Witness ==
    /\ notifier.made
    /\ action.maxbytes > 0
    /\ mode = "lock"
    /\ InScope
    /\ action.mode = "split"
    /\ ~action.truncate
    /\ notifier.cls = TextMailNotifier

-----------------------------------------------------------------------------
(* The splitting notifiers: SplittingDecorator of notifier._textmail over  *)
(* TextMailNotifier, and of notifier._multimail over MultiMailNotifier.    *)
(* Text is a sequence of characters: "m" of the metadata, "p" of the path  *)
(* list, "\n", and one letter per diff.                                    *)

Rep(c, n) == [k \in 1..n |-> c]

DiffChars == <<"A", "B", "C", "D", "E", "F">>

\* the size of a diff that is longer than any limit of the model and the
\* notes together
BigChunk == 2 * MaxSize + 4

\* the text of the k-th diff, of n characters: a short one is a single line
\* without its end, a big one consists of lines of one character
DiffText(k, n) ==
    IF n <= MaxChunk THEN Rep(DiffChars[k], n)
    ELSE [i \in 1..n |-> IF i % 2 = 1 THEN DiffChars[k] ELSE "\n"]

\* _multimail.decorateNotifier for a commit and an action of mode split
\* without the truncate submode
MultiSplitNotifier(a) ==
    Construct(inherit("SplittingDecorator", <<"MultiMailNotifier">>),
              a.maxbytes, a.drop)

IsText == notifier.cls[Len(notifier.cls)] = "TextMailNotifier"

\* SplittingStream.write
SplitWrite(f, towrite) ==
    [f EXCEPT !.current = @ + Len(towrite), !.buf = @ \o towrite]

splitKeep(f) ==
    IF f.current = 0 THEN f
    ELSE [f EXCEPT !.tempfiles = Append(@, f.buf), !.current = 0]

\* SplittingStream.split
split(f) ==
    IF f.current = 0 THEN f
    ELSE [f EXCEPT !.tempfiles = Append(@, f.buf), !.current = 0, !.buf = <<>>]

needsSplitAtLimit(forced, supposed, maxsize) == forced \/ supposed >= maxsize

\* "if split or supposed > self.max_notification_size"
needsSplit(forced, supposed, maxsize) == forced \/ supposed > maxsize

\* SplittingDecorator._flushToFinalStream, for the value of self.fp
flushToFinalStream(f, value, forced, maxsize) ==
    IF needsSplit(forced, f.current + Len(value), maxsize)
    THEN SplitWrite(split(SplitWrite(f, <<"\n">>)), value)
    ELSE SplitWrite(f, value)

\* u"[%d/%d]" % (idx, nummails)
Marker(idx, n) == <<"[">> \o Decimal(idx) \o <<"/">> \o Decimal(n) \o <<"]">>

\* u"[Part %d/%d]\n" % (mcount, nummails)
PartLine(idx, n) ==
    <<"[Part ">> \o Decimal(idx) \o <<"/">> \o Decimal(n) \o <<"]", "\n">>

\* the note written to drop_fp
DropNote(n, limit) ==
    <<"\n", "[This commit notification would consist of ">> \o Decimal(n)
        \o <<" parts, ", "\n", "which exceeds the limit of ">> \o Decimal(limit)
        \o <<" ones, so it was shortened to the summary.]", "\n">>

Mail(marker, body, diffs) == [marker |-> marker, body |-> body, diffs |-> diffs]

dropAppliesIfSet(drop, n) == drop.isset /\ n > drop.n

\* "self.drop and nummails > self.drop"
dropApplies(drop, n) == drop.isset /\ drop.n # 0 /\ n > drop.n

TruncatingNever == FALSE

\* the notifier is made with the TruncatingDecorator, whose _getMailWriter
\* puts a TruncatingStream with note into every mail writer
Truncating == "TruncatingDecorator" \in SeqRange(notifier.cls)

\* the TruncatingStream of a mail writer, from its content and counters
StreamOf(buf, cnt) ==
    [maxsize |-> notifier.maxsize, add_note |-> TRUE, current |-> cnt.current,
     trunced |-> cnt.trunced, lastchar |-> cnt.lastchar,
     stream |-> [buf |-> buf, pos |-> Len(buf)]]

\* write(text) on a mail writer: its content and counters afterwards
MailWrite(buf, cnt, text) ==
    IF Truncating
    THEN LET st == TruncWrite(StreamOf(buf, cnt), text).st
         IN  [buf |-> st.stream.buf,
              cnt |-> [current |-> st.current, trunced |-> st.trunced,
                       lastchar |-> st.lastchar]]
    ELSE [buf |-> buf \o text, cnt |-> cnt]

\* getvalue() of a mail writer
MailValue(buf, cnt) == IF Truncating THEN getvalue(StreamOf(buf, cnt)) ELSE buf

WriteMetaDataOnce ==
    /\ spc = "meta"
    /\ \E n \in 1..MaxChunk :
          /\ fp' = MailWrite(fp, fp_t, Rep("m", n)).buf
          /\ fp_t' = MailWrite(fp, fp_t, Rep("m", n)).cnt
          /\ rendered' = rendered \o Rep("m", n)
    /\ spc' = "paths"
    /\ UNCHANGED <<final_fp, drop_fp, drop_t, diff_file_list, ndiffs, nummails,
                   mails, notSplit>>

\* SplittingDecorator.writeMetaData: to drop_fp and to fp
WriteMetaData ==
    /\ spc = "meta"
    /\ \E n \in 1..MaxChunk :
          /\ drop_fp' = MailWrite(drop_fp, drop_t, Rep("m", n)).buf
          /\ drop_t' = MailWrite(drop_fp, drop_t, Rep("m", n)).cnt
          /\ fp' = MailWrite(fp, fp_t, Rep("m", n)).buf
          /\ fp_t' = MailWrite(fp, fp_t, Rep("m", n)).cnt
          /\ rendered' = rendered \o Rep("m", n)
    /\ spc' = "paths"
    /\ UNCHANGED <<final_fp, diff_file_list, ndiffs, nummails, mails, notSplit>>

\* writePathList: the one of _text, and around it the one of the text
\* SplittingDecorator, which moves fp to final_fp and splits over the limit
WritePathList ==
    /\ spc = "paths"
    /\ \E n \in 1..MaxChunk :
          /\ rendered' = rendered \o Rep("p", n)
          /\ LET w == MailWrite(fp, fp_t, Rep("p", n))
             IN  IF IsText
                 THEN LET f == SplitWrite(final_fp, MailValue(w.buf, w.cnt))
                      IN  /\ fp' = <<>>
                          /\ fp_t' = NewCounters
                          /\ final_fp' = IF f.current > notifier.maxsize
                                         THEN split(SplitWrite(f, <<"\n">>))
                                         ELSE f
                 ELSE /\ fp' = w.buf
                      /\ fp_t' = w.cnt
                      /\ UNCHANGED final_fp
    /\ spc' = "difflist"
    /\ UNCHANGED <<drop_fp, drop_t, diff_file_list, ndiffs, nummails, mails,
                   notSplit>>

\* writeDiffList up to its loop: self.fp.write("\n"), which the
\* MultiMailNotifier sends to a DevNullStream
WriteDiffListHead ==
    /\ spc = "difflist"
    /\ IF IsText
       THEN /\ fp' = MailWrite(fp, fp_t, <<"\n">>).buf
            /\ fp_t' = MailWrite(fp, fp_t, <<"\n">>).cnt
            /\ rendered' = rendered \o <<"\n">>
       ELSE UNCHANGED <<fp, fp_t, rendered>>
    /\ spc' = "diffs"
    /\ UNCHANGED <<final_fp, drop_fp, drop_t, diff_file_list, ndiffs, nummails,
                   mails, notSplit>>

\* writeContentDiff / writePropertyDiffs for one change: text of n
\* characters (none for a directory); flushed by the text decorator, put
\* aside as a diff part by the MultiMailNotifier
WriteDiff ==
    /\ spc = "diffs"
    /\ ndiffs < MaxDiffs
    /\ \E n \in (0..MaxChunk) \cup {BigChunk} :
          LET text == DiffText(ndiffs + 1, n)
              w == MailWrite(fp, fp_t, text)
          IN  IF IsText
              THEN /\ final_fp' = flushToFinalStream(final_fp,
                                                     MailValue(w.buf, w.cnt),
                                                     FALSE, notifier.maxsize)
                   /\ fp' = <<>>
                   /\ fp_t' = NewCounters
                   /\ rendered' = rendered \o text
                   /\ UNCHANGED diff_file_list
              ELSE /\ diff_file_list' =
                          IF n = 0 THEN diff_file_list
                          ELSE Append(diff_file_list, <<ndiffs + 1, n>>)
                   /\ UNCHANGED <<fp, fp_t, final_fp, rendered>>
    /\ ndiffs' = ndiffs + 1
    /\ UNCHANGED <<spc, drop_fp, drop_t, nummails, mails, notSplit>>

\* the text SplittingDecorator._getTextMails
GetTextMails ==
    /\ spc = "diffs"
    /\ IsText
    /\ LET f == flushToFinalStream(final_fp, MailValue(fp, fp_t), TRUE,
                                   notifier.maxsize)
           n == Len(f.tempfiles)
           w == MailWrite(drop_fp, drop_t, DropNote(n, notifier.drop.n))
       IN  /\ nummails' = n
           /\ fp' = <<>>
           /\ fp_t' = NewCounters
           /\ final_fp' = [f EXCEPT !.tempfiles = <<>>]
           /\ IF n = 1
              THEN /\ mails' = <<Mail(<<>>, f.tempfiles[1], <<>>)>>
                   /\ UNCHANGED <<drop_fp, drop_t>>
              ELSE IF dropApplies(notifier.drop, n)
              THEN /\ drop_fp' = w.buf
                   /\ drop_t' = w.cnt
                   /\ mails' = <<Mail(<<>>, MailValue(w.buf, w.cnt), <<>>)>>
              ELSE /\ mails' = [i \in 1..n |->
                                   Mail(Marker(i, n), f.tempfiles[i], <<>>)]
                   /\ UNCHANGED <<drop_fp, drop_t>>
    /\ spc' = "done"
    /\ UNCHANGED <<diff_file_list, ndiffs, rendered, notSplit>>

RECURSIVE SumSizes(_)
SumSizes(diffs) ==
    IF diffs = <<>> THEN 0 ELSE Head(diffs)[2] + SumSizes(Tail(diffs))

RECURSIVE MultiCountFromZero(_, _, _, _)
MultiCountFromZero(diffs, tsize, n, maxsize) ==
    IF diffs = <<>> THEN n
    ELSE IF tsize + Head(diffs)[2] > maxsize
    THEN MultiCountFromZero(Tail(diffs), 0, n + 1, maxsize)
    ELSE MultiCountFromZero(Tail(diffs), tsize + Head(diffs)[2], n, maxsize)

\* the loop of _getMultiMails that computes nummails
RECURSIVE MultiCount(_, _, _, _)
MultiCount(diffs, tsize, n, maxsize) ==
    IF diffs = <<>> THEN n
    ELSE IF tsize + Head(diffs)[2] > maxsize
    THEN MultiCount(Tail(diffs), Head(diffs)[2], n + 1, maxsize)
    ELSE MultiCount(Tail(diffs), tsize + Head(diffs)[2], n, maxsize)

\* the loop of _getMultiMails that yields the mails, and the mail after it
RECURSIVE MultiEmit(_, _, _, _, _, _, _, _)
MultiEmit(diffs, asize, mcount, body, attached, out, n, maxsize) ==
    IF diffs = <<>>
    THEN Append(out, Mail(Marker(mcount, n), body, attached))
    ELSE IF asize + Head(diffs)[2] > maxsize
    THEN MultiEmit(Tail(diffs), Head(diffs)[2], mcount + 1,
                   PartLine(mcount + 1, n), <<Head(diffs)[1]>>,
                   Append(out, Mail(Marker(mcount, n), body, attached)),
                   n, maxsize)
    ELSE MultiEmit(Tail(diffs), asize + Head(diffs)[2], mcount, body,
                   Append(attached, Head(diffs)[1]), out, n, maxsize)

\* the multipart SplittingDecorator._getMultiMails
GetMultiMails ==
    /\ spc = "diffs"
    /\ ~IsText
    /\ LET asize == Len(fp)
           n == MultiCount(diff_file_list, asize, 1, notifier.maxsize)
       IN  IF \/ asize + SumSizes(diff_file_list) <= notifier.maxsize
              \/ diff_file_list = <<>>
           THEN /\ nummails' = 1
                /\ mails' = <<Mail(<<>>, fp,
                                   [k \in 1..Len(diff_file_list) |->
                                       diff_file_list[k][1]])>>
                /\ UNCHANGED drop_fp
           ELSE /\ nummails' = n
                /\ IF dropApplies(notifier.drop, n)
                   THEN /\ drop_fp' = drop_fp \o DropNote(n, notifier.drop.n)
                        /\ mails' = <<Mail(<<>>, drop_fp', <<>>)>>
                   ELSE /\ mails' = MultiEmit(diff_file_list, asize, 1, fp, <<>>,
                                              <<>>, n, notifier.maxsize)
                        /\ UNCHANGED drop_fp
    /\ spc' = "done"
    /\ UNCHANGED <<fp, fp_t, drop_t, final_fp, diff_file_list, ndiffs, rendered,
                   notSplit>>

\* composeMail up to writeNotification: _getMailWriter
SplitStart ==
    /\ spc = "meta"
    /\ fp = <<>>
    /\ fp_t = NewCounters
    /\ final_fp = NewSplittingStream
    /\ drop_fp = <<>>
    /\ drop_t = NewCounters
    /\ diff_file_list = <<>>
    /\ ndiffs = 0
    /\ rendered = <<>>
    /\ nummails = 0
    /\ mails = <<>>

\* the actions of mode split without the truncate submode
SplitActions ==
    { a \in MailActions :
        /\ a.mode = "split"
        /\ a.maxbytes > 0
        /\ ~a.truncate
        /\ a.scope = {} }

InitSplit ==
    /\ UrlIdle
    /\ SubjectIdle
    /\ SendIdle
    /\ GroupingIdle
    /\ RunIdle
    /\ TruncIdle
    /\ mode = "commit"
    /\ action \in SplitActions
    /\ notifier \in { decorateNotifier(TextMailNotifier, action, mode),
                      MultiSplitNotifier(action) }
    /\ SplitStart

NextSplit ==
    \/ WriteMetaData
    \/ WritePathList
    \/ WriteDiffListHead
    \/ WriteDiff
    \/ GetTextMails
    \/ GetMultiMails

SpecSplit == InitSplit /\ [][NextSplit]_vars

\* the actions of mode split with the truncate submode
SplitTruncateActions ==
    { a \in MailActions :
        /\ a.mode = "split"
        /\ a.maxbytes > 0
        /\ a.truncate
        /\ a.scope = {} }

\* a commit mailed by the text notifier under SplittingDecorator and
\* TruncatingDecorator
InitSplitTruncate ==
    /\ UrlIdle
    /\ SubjectIdle
    /\ SendIdle
    /\ GroupingIdle
    /\ RunIdle
    /\ TruncIdle
    /\ mode = "commit"
    /\ action \in SplitTruncateActions
    /\ notifier = decorateNotifier(TextMailNotifier, action, mode)
    /\ SplitStart

NextSplitTruncate ==
    \/ WriteMetaData
    \/ WritePathList
    \/ WriteDiffListHead
    \/ WriteDiff
    \/ GetTextMails

SpecSplitTruncate == InitSplitTruncate /\ [][NextSplitTruncate]_vars

\* a commit mailed by a splitting notifier, with or without the truncate
\* submode
InitSplitAny == InitSplit \/ InitSplitTruncate

SpecSplitAny == InitSplitAny /\ [][NextSplit]_vars

\* the mails of a text notifier have been made
TextDone == spc = "done" /\ IsText

\* text ends with the given text
EndsWith(text, tail) ==
    /\ Len(text) >= Len(tail)
    /\ From(text, Len(text) - Len(tail)) = tail

\* exactly one mail, without a part marker, ending in the note that states
\* the part count and the limit
OneSummaryMail ==
    /\ Len(mails) = 1
    /\ mails[1].marker = <<>>
    /\ EndsWith(mails[1].body, DropNote(nummails, notifier.drop.n))

\* nummails mails, the i-th with the marker [i/nummails]
NumberedMails ==
    /\ Len(mails) = nummails
    /\ \A i \in 1..nummails : mails[i].marker = Marker(i, nummails)

RenderedSize ==
    IF IsText THEN Len(rendered) ELSE Len(fp) + SumSizes(diff_file_list)

FlushedSize == Len(rendered) - (IF ndiffs = 0 THEN 1 ELSE 0)

RECURSIVE Concat(_)
Concat(texts) == IF texts = <<>> THEN <<>> ELSE Head(texts) \o Concat(Tail(texts))

\* the bodies of the mails, and the bodies without their last character
Bodies == [i \in 1..Len(mails) |-> mails[i].body]

BodiesCut == [i \in 1..Len(mails) |-> SubSeq(mails[i].body, 1, Len(mails[i].body) - 1)]

\* the text notifier has mailed the parts, not the summary
PartsMailed == TextDone /\ ~dropApplies(notifier.drop, nummails)

-----------------------------------------------------------------------------
(* The summary mail of the splitting notifiers.                            *)

IsMeta(c) == c = "m"

IsHeader(c) == c = "m" \/ c = "p"

\* what writeMetaData rendered, and what writeMetaData and writePathList
\* rendered
MetaText == SelectSeq(rendered, IsMeta)

HeaderText == SelectSeq(rendered, IsHeader)

\* the mails are made, more than one part was computed and the drop
\* threshold is exceeded
DropFired == spc = "done" /\ nummails > 1 /\ dropApplies(notifier.drop, nummails)

Written(first, second) ==
    LET w1 == MailWrite(<<>>, NewCounters, first)
        w2 == MailWrite(w1.buf, w1.cnt, second)
    IN  MailValue(w2.buf, w2.cnt)

-----------------------------------------------------------------------------
(* notifier._textmail.URLDecorator and URLTruncatingDecorator over          *)
(* TextMailNotifier, for a commit.  self.fp is a CuckooStream around a      *)
(* TruncatingStream without note; self.url_fp takes the metadata, the path  *)
(* list, a note and the url of every content diff that has one.            *)

\* the template types of browser._base.Template that the changes of the
\* model select, and the revision template
TemplateTypes == {"revision", "added", "modified"}

NoGenerator == [isset |-> FALSE, templates |-> {}]

MkGenerator(t) == [isset |-> TRUE, templates |-> t]

\* browser.Manager.select
select(config) ==
    LET generator ==
            IF config.browser_base_url \notin {"none", "empty"}
            THEN MkGenerator(TemplateTypes)
            ELSE IF config.viewcvs_base_url /\ config.browser_base_url = "none"
            THEN MkGenerator(TemplateTypes)
            ELSE IF config.browser_base_url = "none"
            THEN MkGenerator(config.templates)
            ELSE NoGenerator
    IN  IF generator.isset /\ generator.templates = {}
        THEN NoGenerator
        ELSE generator

\* getContentDiffUrl(config, change): is there a url
hasContentDiffUrl(config, kind) ==
    select(config).isset /\ kind \in select(config).templates

\* the notes of URLDecorator.writeDiffList
ShortenedNote ==
    <<"\n", "[This mail would be too long, it was shortened to contain the URLs only.]",
      "\n", "\n">>

NoBaseUrlNote ==
    <<"\n", "[This mail would be too long, it should contain the URLs only, but no browser base url was configured...]",
      "\n">>

\* write calls made one after the other on a TruncatingStream
RECURSIVE TruncWriteAll(_, _)
TruncWriteAll(st, texts) ==
    IF texts = <<>> THEN st
    ELSE TruncWriteAll(TruncWrite(st, Head(texts)).st, Tail(texts))

\* write calls on self.url_fp: a TruncatingStream with note under the
\* URLTruncatingDecorator, else the plain mail writer
UrlWriteAll(u, texts) ==
    IF u.trunc
    THEN [u EXCEPT !.st = TruncWriteAll(@, texts)]
    ELSE [u EXCEPT !.st.stream = FileWrite(@, Concat(texts))]

\* self.url_fp.getvalue()
UrlValue(u) == IF u.trunc THEN getvalue(u.st) ELSE u.st.stream.buf

\* URLTruncatingDecorator._getMailWriter / URLDecorator._getMailWriter:
\* the url_fp of a notifier of the given class
NewUrlFp(cls, maxsize) ==
    [trunc |-> cls[1] = "URLTruncatingDecorator",
     st |-> NewTruncatingStream(EmptyFile, maxsize, TRUE)]

\* the write calls of writeContentDiffAction: "Modified: path\n"
ActionLine(kind) == << <<kind, "\n">> >>

\* the write calls of _text.writeContentDiff for the k-th change: the action
\* line, the url line when there is a url, the separator and n characters
\* of diff, and an empty line
ContentDiff(k, kind, n, url) ==
    ActionLine(kind)
        \o (IF url THEN << <<"URL", "\n">> >> ELSE <<>>)
        \o << <<"=", "\n">>, Rep(DiffChars[k], n), <<"\n">> >>

\* the write calls of writePropertyDiffs for the k-th change
PropertyDiffs(k, n) == << <<"Property changes", "\n">>, Rep(DiffChars[k], n), <<"\n">> >>

\* URLDecorator.writeMetaData: to self.fp and to self.url_fp
UrlWriteMetaData ==
    /\ upc = "meta"
    /\ \E n \in 1..MaxChunk :
          LET texts == << Rep("m", n) \o <<"\n">> >>
          IN  /\ ufp' = TruncWriteAll(ufp, texts)
              /\ url_fp' = UrlWriteAll(url_fp, texts)
              /\ ulog' = ulog \o Concat(texts)
    /\ upc' = "paths"
    /\ UNCHANGED <<browser, udiffs, replaced, ubody, notUrl>>

\* URLDecorator.writePathList: to self.fp and to self.url_fp
UrlWritePathList ==
    /\ upc = "paths"
    /\ \E n \in 1..MaxChunk :
          LET texts == << Rep("p", n) \o <<"\n">> >>
          IN  /\ ufp' = TruncWriteAll(ufp, texts)
              /\ url_fp' = UrlWriteAll(url_fp, texts)
              /\ ulog' = ulog \o Concat(texts)
    /\ upc' = "difflist"
    /\ UNCHANGED <<browser, udiffs, replaced, ubody, notUrl>>

\* "if self.getBrowserGenerator(self.config)": the note written to url_fp
noteFor(generator) ==
    IF generator.isset THEN ShortenedNote ELSE NoBaseUrlNote

\* URLDecorator.writeDiffList up to the loop of _text.writeDiffList
UrlWriteDiffListHead ==
    /\ upc = "difflist"
    /\ url_fp' = UrlWriteAll(url_fp, <<noteFor(select(browser))>>)
    /\ ufp' = TruncWriteAll(ufp, << <<"\n">> >>)
    /\ ulog' = ulog \o <<"\n">>
    /\ upc' = "diffs"
    /\ UNCHANGED <<browser, udiffs, replaced, ubody, notUrl>>

\* the body of the loop of writeDiffList for one change: for a change of
\* content URLDecorator.writeContentDiff, which writes the diff to self.fp
\* and, when there is a url, the action line, the url and an empty line to
\* self.url_fp; for a change of properties only writePropertyDiffs
UrlWriteDiff ==
    /\ upc = "diffs"
    /\ udiffs < MaxUrlDiffs
    /\ \E kind \in {"added", "modified", "properties"}, n \in 1..MaxChunk :
          LET url == hasContentDiffUrl(browser, kind)
              texts == IF kind = "properties"
                       THEN PropertyDiffs(udiffs + 1, n)
                       ELSE ContentDiff(udiffs + 1, kind, n, url)
          IN  /\ ufp' = TruncWriteAll(ufp, texts)
              /\ ulog' = ulog \o Concat(texts)
              /\ url_fp' = IF kind # "properties" /\ url
                           THEN UrlWriteAll(url_fp,
                                    ActionLine(kind)
                                        \o << <<"URL", "\n">>, <<"\n">> >>)
                           ELSE url_fp
    /\ udiffs' = udiffs + 1
    /\ UNCHANGED <<upc, browser, replaced, ubody, notUrl>>

needsReplaceAtLimit(st) == st.current >= st.maxsize

\* "if self.fp.getTruncatedLineCount()"
needsReplace(st) == getTruncatedLineCount(st) # 0

\* URLDecorator.writeNotification after the writers: replaceStream
UrlWriteNotificationEnd ==
    /\ upc = "diffs"
    /\ replaced' = needsReplace(ufp)
    /\ upc' = "written"
    /\ UNCHANGED <<browser, ufp, url_fp, udiffs, ulog, ubody, notUrl>>

\* TextMailNotifier._getTextMails: self.fp.getvalue(), of the stream the
\* CuckooStream holds
UrlGetTextMails ==
    /\ upc = "written"
    /\ ubody' = IF replaced THEN UrlValue(url_fp) ELSE getvalue(ufp)
    /\ upc' = "done"
    /\ UNCHANGED <<browser, ufp, url_fp, udiffs, ulog, replaced, notUrl>>

\* the actions of mode showurls with a size
UrlActions ==
    { [oid |-> 1, maxbytes |-> mb, mode |-> "showurls", truncate |-> tr,
       drop |-> NoDrop, scope |-> {}] :
        mb \in 1..MaxUrlSize, tr \in BOOLEAN }

BrowserConfigs ==
    { [browser_base_url |-> b, viewcvs_base_url |-> v, templates |-> t] :
        b \in {"none", "empty", "viewcvs"}, v \in BOOLEAN,
        t \in SUBSET TemplateTypes }

InitUrl ==
    /\ SubjectIdle
    /\ SendIdle
    /\ GroupingIdle
    /\ RunIdle
    /\ TruncIdle
    /\ SplitIdle
    /\ mode = "commit"
    /\ action \in UrlActions
    /\ notifier = decorateNotifier(TextMailNotifier, action, mode)
    /\ browser \in BrowserConfigs
    /\ upc = "meta"
    /\ ufp = NewTruncatingStream(EmptyFile, notifier.maxsize, FALSE)
    /\ url_fp = NewUrlFp(notifier.cls, notifier.maxsize)
    /\ udiffs = 0
    /\ ulog = <<>>
    /\ replaced = FALSE
    /\ ubody = <<>>

NextUrl ==
    \/ UrlWriteMetaData
    \/ UrlWritePathList
    \/ UrlWriteDiffListHead
    \/ UrlWriteDiff
    \/ UrlWriteNotificationEnd
    \/ UrlGetTextMails

SpecUrl == InitUrl /\ [][NextUrl]_vars

\* C12: for a commit in mode showurls, the body mailed is the content of
\* the url buffer exactly when all the text rendered for the primary content
\* is longer than maxsize; otherwise it is that text, complete and without
\* any note.
C12_UrlBodyIffOverLimit ==
    upc = "done" =>
        /\ replaced <=> Len(ulog) > notifier.maxsize
        /\ replaced => ubody = UrlValue(url_fp) /\ ubody # ulog
        /\ ~replaced => ubody = ulog

\* the primary content was cut, and the url buffer with two urls is mailed
C12_Witness ==
    /\ upc = "done"
    /\ replaced
    /\ Len(ulog) > notifier.maxsize
    /\ udiffs = 2
    /\ Len(SelectSeq(ubody, LAMBDA c : c = "URL")) = 2

-----------------------------------------------------------------------------
(* The GroupSets built. *)

\* the paths of a list of changes
Paths(list) == { list[k].path : k \in 1..Len(list) }

\* the list holds changes of the event, each once, in the order of the event
InEventOrder(list) ==
    list = SelectSeq(changes, LAMBDA c : c.path \in Paths(list))

\* the show_nonmatching_paths of the first group of a GroupSet
PolicyOf(set) == groups[set.groups[1]].show_nonmatching_paths

\* C13: the xchanges of every GroupSet follow the show_nonmatching_paths of
\* its first group: with "yes" they are the changes of the event that are
\* not among the set's changes, in the order of the event; with "ignore"
\* they are None; with "no" they are an empty list.
C13_XChangesByPolicy ==
    gpc = "done" =>
        \A i \in 1..Len(group_sets) :
            LET set == group_sets[i]
            IN  CASE PolicyOf(set) = "yes" ->
                        /\ set.xchanges.isset
                        /\ InEventOrder(set.xchanges.list)
                        /\ Paths(set.xchanges.list) \cap Paths(set.changes) = {}
                        /\ Paths(set.xchanges.list) \cup Paths(set.changes)
                                = Paths(changes)
                  [] PolicyOf(set) = "ignore" -> ~set.xchanges.isset
                  [] PolicyOf(set) = "no" ->
                        set.xchanges.isset /\ set.xchanges.list = <<>>
                  [] OTHER -> FALSE

\* GroupSets of all three policies were built for an event of three
\* changes, the one with "yes" having changes of its own and others
C13_Witness ==
    /\ gpc = "done"
    /\ Len(changes) = 3
    /\ \E i, j, k \in 1..Len(group_sets) :
          /\ PolicyOf(group_sets[i]) = "yes"
          /\ group_sets[i].changes # <<>>
          /\ group_sets[i].xchanges.list # <<>>
          /\ PolicyOf(group_sets[j]) = "ignore"
          /\ PolicyOf(group_sets[k]) = "no"

\* the groups _getGroupsByChange returns for a change
ReturnedFor(change) ==
    IF Primary(change) # {} THEN Primary(change) ELSE Fallback(change)

\* the changes of the event a group was returned for, in event order
ChangesOf(g) == SelectSeq(changes, LAMBDA c : g \in ReturnedFor(c))

\* the GroupSets a group is listed in, counted by its places in their lists
PlacesOf(g) ==
    { <<i, k>> \in (1..Len(group_sets)) \X (1..MaxGroups) :
        /\ k <= Len(group_sets[i].groups)
        /\ group_sets[i].groups[k] = g }

\* C14: every GroupSet built has at least one change and at least one
\* group; a group returned for at least one change is in exactly one
\* GroupSet, whose changes are exactly the changes the group was returned
\* for, in the order of the event; a group returned for no change is in no
\* GroupSet.
C14_GroupSetsCoverMatches ==
    gpc = "done" =>
        /\ \A i \in 1..Len(group_sets) :
              group_sets[i].changes # <<>> /\ group_sets[i].groups # <<>>
        /\ \A g \in 1..Len(groups) :
              IF ChangesOf(g) # <<>>
              THEN /\ Cardinality(PlacesOf(g)) = 1
                   /\ \A pl \in PlacesOf(g) :
                         group_sets[pl[1]].changes = ChangesOf(g)
              ELSE PlacesOf(g) = {}

\* a GroupSet of two groups and two changes, and a group that was returned
\* for no change
C14_Witness ==
    /\ gpc = "done"
    /\ \E i \in 1..Len(group_sets) :
          Len(group_sets[i].groups) = 2 /\ Len(group_sets[i].changes) = 2
    /\ \E g \in 1..Len(groups) : ChangesOf(g) = <<>>

\* the partition a list of GroupSets makes of the groups: the groups of
\* each set, without their order, with the changes of the set
Partition(sets) ==
    { <<SeqRange(sets[k].groups), sets[k].changes>> : k \in 1..Len(sets) }

\* C15: the GroupSets built from the accumulated group_changes hold the
\* same groups with the same changes for every order in which
\* group_changes.items() may list the dictionary; only the order of the
\* groups inside a set and the order of the sets depend on it.
C15_PartitionOrderIndependent ==
    gpc = "done" =>
        \A items \in ItemOrders(group_changes) :
            Partition(BuildLoop(groups, items, <<>>, changes))
                = Partition(group_sets)

\* three groups were matched, two of them merged into one GroupSet, and
\* another order of the dictionary lists the groups of that set the other
\* way round
C15_Witness ==
    /\ gpc = "done"
    /\ Cardinality(group_changes) = 3
    /\ Len(group_sets) = 2
    /\ \E items \in ItemOrders(group_changes) :
          /\ BuildLoop(groups, items, <<>>, changes) # group_sets
          /\ \E k \in 1..2 :
                /\ Len(group_sets[k].groups) = 2
                /\ BuildLoop(groups, items, <<>>, changes)[k].groups
                     = <<group_sets[k].groups[2], group_sets[k].groups[1]>>

\* the conditions under which a group applies to a change: each of
\* for_repos and for_paths is unset or matches, exclude_paths is unset or
\* does not match; the path tested ends in a slash exactly for a directory
ShouldApply(group, change) ==
    LET path == <<change.path, change.isDir>>
    IN  /\ ~group.for_repos.isset \/ RxMatch(group.for_repos, ReposPath)
        /\ ~group.exclude_paths.isset \/ ~RxMatch(group.exclude_paths, path)
        /\ ~group.for_paths.isset \/ RxMatch(group.for_paths, path)

ApplyingTo(change) ==
    { g \in 1..Len(groups) : ShouldApply(groups[g], change) }

\* C16: the groups _getGroupsByChange returns for a change are groups that
\* apply to it by these conditions, and every group that applies by them is
\* returned unless it is a fallback group (ignore_if_other_matches) beside
\* an applying group that is not; a group whose exclude_paths matches is
\* not returned even when its for_paths matches.
C16_AppliesByPredicates ==
    cidx > 1 =>
        LET A == ApplyingTo(LastChange)
            P == { g \in A : ~groups[g].ignore_if_other_matches }
        IN  /\ SeqRange(returned) = IF P # {} THEN P ELSE A
            /\ \A g \in 1..Len(groups) :
                  (/\ groups[g].exclude_paths.isset
                   /\ RxMatch(groups[g].exclude_paths,
                              <<LastChange.path, LastChange.isDir>>))
                      => g \notin SeqRange(returned)

\* for a directory, one group is kept out by its exclude_paths although its
\* for_paths matches, and another is returned because its for_repos and its
\* for_paths match
C16_Witness ==
    /\ cidx > 1
    /\ LastChange.isDir
    /\ \E g, h \in 1..Len(groups) :
          /\ groups[g].for_paths = RxABC
          /\ groups[g].exclude_paths = RxBC
          /\ g \notin SeqRange(returned)
          /\ groups[h].for_repos = RxThisRepos
          /\ groups[h].for_paths = RxABC
          /\ ~groups[h].exclude_paths.isset
          /\ h \in SeqRange(returned)

\* the places <<GroupSet, notifier>> of the loops of run up to the one the
\* loops stand at
UpToHere ==
    { pl \in (1..MaxSets) \X (1..MaxNotifiers) :
        pl[1] < gsidx \/ (pl[1] = gsidx /\ pl[2] <= nidx) }

\* C17: a subversion.Error, raised while the repository is opened, while
\* the GroupSets are built or by a notifier, never leaves run as it is: run
\* ends at once with RepositoryError and the repository closed.  No
\* notifier after the one that raised it was run and no later GroupSet was
\* given to the selector; the notifier that raised it is not among the
\* recorded failures; an error before the loops leaves nothing attempted.
C17_RepositoryErrorAborts ==
    /\ result # "subversion.Error"
    /\ result = "RepositoryError" =>
          /\ rpc = "done"
          /\ repos # "open"
          /\ attempted \subseteq UpToHere
          /\ selected \subseteq 1..gsidx
          /\ <<gsidx, nidx>> \notin FailedNotifiers
          /\ gsidx = 0 => attempted = {} /\ selected = {}

\* the first notifier of the second GroupSet raised the repository error
\* after a notifier of the first GroupSet had failed; a second notifier and
\* a third GroupSet were left
C17_Witness ==
    /\ result = "RepositoryError"
    /\ nsets = 3
    /\ gsidx = 2
    /\ nidx = 1
    /\ notifiers = 2
    /\ <<2, 1>> \in attempted
    /\ notifier_errors # <<>>

\* the text passed on is the beginning of the text written, and is no
\* longer than maxsize
PassedIsBoundedPrefix ==
    /\ Len(passed_log) <= Len(written_log)
    /\ passed_log = SubSeq(written_log, 1, Len(passed_log))
    /\ Len(passed_log) <= tstream.maxsize

\* a step other than seek(0) that is taken after text was discarded passes
\* nothing on
NothingPassedAfterDiscard ==
    (dropped_log # <<>> /\ written_log' # <<>>) => passed_log' = passed_log

\* C18: at every point of a sequence of write, seek(0) and truncate calls
\* the text passed to the wrapped stream since the start or the last
\* seek(0) is a prefix of the text written since then and is at most
\* maxsize long; once text has been discarded, nothing written afterwards
\* is passed on until seek(0) resets the stream.
C18_BoundedPrefix == []PassedIsBoundedPrefix /\ [][NothingPassedAfterDiscard]_vars

\* after a line was discarded a line that would have fitted was written
\* and discarded as well
C18_Witness ==
    /\ Len(passed_log) + 1 <= tstream.maxsize
    /\ Len(dropped_log) >= 3
    /\ dropped_log[Len(dropped_log)] = "\n"

\* the length of the note "[... n lines stripped ...]" with its line ends
NoteSize == Len(StrippedNote(1))

-----------------------------------------------------------------------------
(* The note of the url mail. *)

\* the text holds the line
HasLine(text, line) == \E i \in DOMAIN text : text[i] = line

\* no change of the revision got a url: neither _text.writeContentDiff nor
\* URLDecorator.writeContentDiff wrote a url line
NoUrlWritten == ~HasLine(ulog, "URL")

\* C20: when the url buffer is mailed and no change got a content-diff url,
\* the body carries the "no browser base url was configured" note and not
\* the "shortened to contain the URLs only" note.
C20_NoBaseUrlNoteWhenNoUrl ==
    (upc = "done" /\ replaced /\ NoUrlWritten) =>
        /\ HasLine(ubody, NoBaseUrlNote[2])
        /\ ~HasLine(ubody, ShortenedNote[2])

-----------------------------------------------------------------------------
(* Composition by a notifier that neither splits nor replaces its stream:  *)
(* TextMailNotifier itself, or the TruncatingDecorator over it.            *)
(* composeMail makes the mail writer, writeNotification writes to it with  *)
(* a number of write calls, and _getTextMails makes the one mail.          *)

\* the notifier has neither the SplittingDecorator nor the URLDecorator
PlainComposer ==
    /\ notifier.made
    /\ "SplittingDecorator" \notin SeqRange(notifier.cls)
    /\ "URLDecorator" \notin SeqRange(notifier.cls)

\* a write call of a writer of writeNotification on self.fp
WriteNotification ==
    /\ PlainComposer
    /\ spc \in {"idle", "write"}
    /\ ndiffs < MaxCalls
    /\ \E towrite \in Texts :
          /\ fp' = MailWrite(fp, fp_t, towrite).buf
          /\ fp_t' = MailWrite(fp, fp_t, towrite).cnt
          /\ rendered' = rendered \o towrite
    /\ ndiffs' = ndiffs + 1
    /\ spc' = "write"
    /\ UNCHANGED <<final_fp, drop_fp, drop_t, diff_file_list, nummails, mails,
                   notSplit>>

\* TextMailNotifier._getTextMails: one mail of self.fp.getvalue()
GetPlainTextMails ==
    /\ PlainComposer
    /\ spc = "write"
    /\ mails' = <<Mail(<<>>, MailValue(fp, fp_t), <<>>)>>
    /\ spc' = "done"
    /\ UNCHANGED <<fp, fp_t, final_fp, drop_fp, drop_t, diff_file_list, ndiffs,
                   rendered, nummails, notSplit>>

NextCompose ==
    \/ GetNotifier
    \/ WriteNotification
    \/ GetPlainTextMails

SpecCompose == InitDecorate /\ [][NextCompose]_vars

\* the action does not bound the mail of this event
Unbounded ==
    \/ action = NoAction
    \/ action.maxbytes = 0
    \/ mode # "commit" /\ ~InScope

\* C21: without an action, with maxbytes 0, or for a propchange, lock or
\* unlock event outside the scope of the action, the notifier is the class
\* itself, and the one mail it makes holds all the text written, without
\* marker and without note.
C21_UndecoratedWhenUnbounded ==
    Unbounded =>
        /\ notifier.made => notifier.cls = TextMailNotifier
        /\ spc = "done" =>
              /\ Len(mails) = 1
              /\ mails[1] = Mail(<<>>, rendered, <<>>)

\* a lock event outside the scope of an action of mode truncate, with more
\* text than maxbytes
C21_Witness ==
    /\ spc = "done"
    /\ mode = "lock"
    /\ action # NoAction
    /\ action.mode = "truncate"
    /\ action.maxbytes > 0
    /\ "locks" \notin action.scope
    /\ Len(rendered) > action.maxbytes + 1
    /\ mails[1].body = rendered

-----------------------------------------------------------------------------
(* notifier._mail.MailNotifier.getMailSubject.  Paths and the subject are  *)
(* sequences of characters; the only white space is the blank.             *)

\* "short_length = max_length or 255"
ShortLengthDefault == 255

MaxSubjectLength == 8

LongNameLength == 125

\* the characters of the paths of the model, in the order of their codes
CharOrder == <<" ", ".", "/", "1", "2", "a", "b", "c", "d", "e", "x">>

Ord(c) == CHOOSE i \in 1..Len(CharOrder) : CharOrder[i] = c

\* a < b for two strings
StrLess(a, b) ==
    LET n == IF Len(a) < Len(b) THEN Len(a) ELSE Len(b)
        differ == {k \in 1..n : a[k] # b[k]}
    IN  IF differ = {} THEN Len(a) < Len(b)
        ELSE Ord(a[SetMin(differ)]) < Ord(b[SetMin(differ)])

\* list.sort() of distinct strings
RECURSIVE SortedStrings(_)
SortedStrings(S) ==
    IF S = {} THEN <<>>
    ELSE LET least == CHOOSE x \in S : \A y \in S \ {x} : StrLess(x, y)
         IN  <<least>> \o SortedStrings(S \ {least})

\* sep.join(words)
RECURSIVE Join(_, _)
Join(sep, words) ==
    IF words = <<>> THEN <<>>
    ELSE IF Len(words) = 1 THEN words[1]
    ELSE words[1] \o sep \o Join(sep, Tail(words))

\* s.split()
RECURSIVE SplitWords(_)
SplitWords(s) ==
    IF s = <<>> THEN <<>>
    ELSE IF Head(s) = " " THEN SplitWords(Tail(s))
    ELSE LET blanks == {k \in 1..Len(s) : s[k] = " "}
             n == IF blanks = {} THEN Len(s) ELSE SetMin(blanks) - 1
         IN  <<SubSeq(s, 1, n)>> \o SplitWords(From(s, n))

\* s[:k]
Slice(s, k) ==
    IF k >= 0 THEN SubSeq(s, 1, IF k < Len(s) THEN k ELSE Len(s))
    ELSE SubSeq(s, 1, IF Len(s) + k > 0 THEN Len(s) + k ELSE 0)

\* s.rfind("/") + 1
LastSlash(s) ==
    LET at == {k \in 1..Len(s) : s[k] = "/"}
    IN  IF at = {} THEN 0 ELSE CHOOSE k \in at : \A j \in at : j <= k

\* posixpath.commonprefix
commonprefix(paths) ==
    IF paths = {} THEN <<>>
    ELSE LET one == CHOOSE p \in paths : TRUE
             shared == {k \in 0..Len(one) :
                           \A p \in paths :
                               Len(p) >= k /\ SubSeq(p, 1, k) = SubSeq(one, 1, k)}
         IN  SubSeq(one, 1, CHOOSE k \in shared : \A j \in shared : j <= k)

\* posixpath.dirname, for paths without double slashes
dirname(p) ==
    LET head == SubSeq(p, 1, LastSlash(p))
    IN  IF Len(head) > 1 THEN SubSeq(head, 1, Len(head) - 1) ELSE head

\* util.commonPaths
commonPaths(paths) ==
    IF Cardinality(paths) > 1 /\ <<"/">> \notin paths
    THEN LET prefix == commonprefix(paths)
             common == IF LastChar(prefix) # "/"
                       THEN SubSeq(prefix, 1, LastSlash(prefix))
                       ELSE prefix
             idx == Len(common)
         IN  IF idx > 0
             THEN [common |-> SubSeq(common, 1, idx - 1),
                   paths |-> {IF From(p, idx) = <<>> THEN <<".", "/">>
                              ELSE From(p, idx) : p \in paths}]
             ELSE [common |-> common, paths |-> paths]
    ELSE [common |-> <<>>, paths |-> paths]

\* MailNotifier._getPathString
getPathString(prefix, paths) ==
    LET slash == IF prefix # <<>> THEN <<>> ELSE <<"/">>
        joined == Join(<<" ">>, [k \in 1..Len(paths) |-> slash \o paths[k]])
    IN  IF prefix # <<>>
        THEN <<"i", "n", " ", "/">> \o prefix \o <<":", " ">> \o joined
        ELSE joined

\* MailNotifier._getPrefixedFiles
getPrefixedFiles(set) ==
    LET c == commonPaths({IF change.isDir THEN change.path \o <<"/">>
                          ELSE change.path : change \in set})
    IN  getPathString(c.common, SortedStrings(c.paths))

\* MailNotifier._getPrefixedDirectories
getPrefixedDirectories(set) ==
    LET c == commonPaths({(IF change.isDir THEN change.path
                           ELSE dirname(change.path)) \o <<"/">> :
                             change \in set})
    IN  getPathString(c.common, SortedStrings(c.paths))

\* COMMIT_SUBJECT, REVPROP_SUBJECT, LOCK_SUBJECT, UNLOCK_SUBJECT
DefaultSubject(m) ==
    CASE m = "commit" ->
            <<Ref("prefix"), Lit(" "), Lit("r"), Ref("revision"), Lit(" "),
              Ref("part"), Lit(" "), Lit("-"), Lit(" "), Ref("files/dirs")>>
      [] m = "propchange" ->
            <<Ref("prefix"), Lit(" "), Lit("r"), Ref("revision"), Lit(" "),
              Lit("-"), Lit(" "), Ref("property")>>
      [] OTHER -> <<Ref("prefix"), Lit(" "), Ref("files/dirs")>>

\* "max_length = max(0, groups[0].max_subject_length)"
max_length ==
    IF group0.max_subject_length > 0 THEN group0.max_subject_length ELSE 0

\* "short_length = max_length or 255"
short_length == IF max_length # 0 THEN max_length ELSE ShortLengthDefault

\* "template = getattr(groups[0], '%s_subject_template' % mode) or template"
SubjectTemplate ==
    IF group0.subject_template.isset /\ group0.subject_template.t # <<>>
    THEN group0.subject_template
    ELSE MkValue(DefaultSubject(mode))

\* the dict params
SubjectParams ==
    { <<"prefix", group0.subject_prefix>>,
      <<"part", countprefix>>,
      <<"files", getPrefixedFiles(changeset)>>,
      <<"dirs", getPrefixedDirectories(changeset)>> }

\* the local function dosubject
dosubject(param) ==
    LET params == DictUpdate(SubjectParams,
                             { <<"files/dirs", DictGet(SubjectParams, param)>> })
        cparams == DictUpdate(params, group0.subst)
    IN  Join(<<" ">>, SplitWords(substitute(SubjectTemplate, cparams).t))

\* "subject = '%s...' % subject[:max_length - 3]"
Reduced(s) == Slice(s, max_length - 3) \o <<".", ".", ".">>

\* "subject = dosubject('files')"
DoSubjectFiles ==
    /\ jpc = "start"
    /\ subject' = dosubject("files")
    /\ jpc' = "files"
    /\ UNCHANGED <<changeset, group0, countprefix, mode, notSubject>>

\* "if len(subject) > short_length: subject = dosubject('dirs')"
DoSubjectDirs ==
    /\ jpc = "files"
    /\ Len(subject) > short_length
    /\ subject' = dosubject("dirs")
    /\ jpc' = "dirs"
    /\ UNCHANGED <<changeset, group0, countprefix, mode, notSubject>>

\* "if max_length and len(subject) > max_length", and the return
ReduceSubject ==
    /\ \/ jpc = "files" /\ Len(subject) <= short_length
       \/ jpc = "dirs"
    /\ subject' = IF max_length # 0 /\ Len(subject) > max_length
                  THEN Reduced(subject)
                  ELSE subject
    /\ jpc' = "done"
    /\ UNCHANGED <<changeset, group0, countprefix, mode, notSubject>>

\* a name of LongNameLength characters and one more
LongName(c) == Rep("x", LongNameLength) \o <<c>>

\* the changes a GroupSet of the model may hold
SubjectChanges ==
    { [path |-> <<"a">>, isDir |-> FALSE],
      [path |-> <<"d", "/", "b">>, isDir |-> FALSE],
      [path |-> <<"d", "/", "c">>, isDir |-> FALSE],
      [path |-> <<"d", "/", "e">>, isDir |-> TRUE],
      [path |-> <<"d", "/">> \o LongName("1"), isDir |-> FALSE],
      [path |-> <<"d", "/">> \o LongName("2"), isDir |-> FALSE] }

\* the groups[0] of the model: any max_subject_length from -1 on, with or
\* without a prefix, with or without a template of its own
SubjectGroups ==
    { [max_subject_length |-> n, subject_prefix |-> p, subject_template |-> t,
       subst |-> { <<"revision", RuntimeRevision>>, <<"author", RuntimeAuthor>> }] :
        n \in -1..MaxSubjectLength,
        p \in {<<>>, <<"p">>},
        t \in {NoValue, MkValue(<<Ref("prefix"), Lit(" "), Ref("files")>>)} }

InitSubject ==
    /\ SendIdle
    /\ GroupingIdle
    /\ RunIdle
    /\ TruncIdle
    /\ SplitIdle
    /\ UrlIdle
    /\ mode \in MODES
    /\ action = NoAction
    /\ notifier = [made |-> FALSE, cls |-> <<>>, maxsize |-> 0, drop |-> NoDrop]
    /\ jpc = "start"
    /\ changeset \in SUBSET SubjectChanges
    /\ group0 \in SubjectGroups
    /\ countprefix \in {<<>>, Marker(1, 2)}
    /\ subject = <<>>

NextSubject ==
    \/ DoSubjectFiles
    \/ DoSubjectDirs
    \/ ReduceSubject

SpecSubject == InitSubject /\ [][NextSubject]_vars

\* C22: the subject returned is made with the file list, or with the
\* directory list when the one of the file list is longer than the maximum
\* (255 without a maximum), and with a positive maximum it has at most that
\* many characters, cut with "..." at the end when it was longer.
C22_SubjectWithinMaximum ==
    jpc = "done" =>
        LET made == IF Len(dosubject("files")) > short_length
                    THEN dosubject("dirs")
                    ELSE dosubject("files")
        IN  /\ max_length = 0 => subject = made
            /\ max_length > 0 =>
                  /\ Len(subject) <= max_length
                  /\ Len(made) <= max_length => subject = made
                  /\ Len(made) > max_length =>
                        EndsWith(subject, <<".", ".", ".">>)

-----------------------------------------------------------------------------
(* The mails of the text SplittingDecorator one by one: _getTextMails is a *)
(* generator, MailNotifier.run hands every mail it yields to sendMail.     *)
(* The elements of final_fp.tempfiles are the TempFile objects, each with  *)
(* its file on disk; the file of a TempFile is unlinked by its __del__.    *)

\* the number of mails the generator yields
MailCount ==
    IF nummails = 1 THEN 1
    ELSE IF dropApplies(notifier.drop, nummails) THEN 1
    ELSE nummails

\* _getTextMails up to its first yield: the flush with split, and the count
FlushForMails ==
    /\ spc = "diffs"
    /\ IsText
    /\ LET f == flushToFinalStream(final_fp, MailValue(fp, fp_t), TRUE,
                                   notifier.maxsize)
       IN  /\ final_fp' = f
           /\ nummails' = Len(f.tempfiles)
    /\ fp' = <<>>
    /\ fp_t' = NewCounters
    /\ spc' = "yield"
    /\ UNCHANGED <<drop_fp, drop_t, diff_file_list, ndiffs, rendered, mails,
                   notSplit>>

\* the generator yields its next mail and run calls sendMail, which returns
\* or raises; when it raises, run is left and the generators of composeMail
\* and _getTextMails are never resumed
YieldMail ==
    /\ spc = "yield"
    /\ Len(mails) < MailCount
    /\ LET w == MailWrite(drop_fp, drop_t, DropNote(nummails, notifier.drop.n))
       IN  IF nummails = 1
           THEN /\ mails' = Append(mails, Mail(<<>>, final_fp.tempfiles[1], <<>>))
                /\ UNCHANGED <<drop_fp, drop_t>>
           ELSE IF dropApplies(notifier.drop, nummails)
           THEN /\ drop_fp' = w.buf
                /\ drop_t' = w.cnt
                /\ mails' = Append(mails, Mail(<<>>, MailValue(w.buf, w.cnt), <<>>))
           ELSE /\ mails' = Append(mails,
                                   Mail(Marker(Len(mails) + 1, nummails),
                                        final_fp.tempfiles[Len(mails) + 1], <<>>))
                /\ UNCHANGED <<drop_fp, drop_t>>
    /\ \/ spc' = "yield"
       \/ spc' = "failed"
    /\ UNCHANGED <<fp, fp_t, final_fp, diff_file_list, ndiffs, rendered,
                   nummails, notSplit>>

\* the end of _getTextMails: self.drop_fp.close(), self.final_fp.close(),
\* which empties the list tempfiles
CloseStreams ==
    /\ spc = "yield"
    /\ Len(mails) = MailCount
    /\ final_fp' = [final_fp EXCEPT !.tempfiles = <<>>]
    /\ spc' = "done"
    /\ UNCHANGED <<fp, fp_t, drop_fp, drop_t, diff_file_list, ndiffs, rendered,
                   nummails, mails, notSplit>>

\* a writer of writeNotification raises: composeMail is left at once
ComposeFails ==
    /\ spc \in {"paths", "difflist", "diffs"}
    /\ spc' = "failed"
    /\ UNCHANGED <<fp, fp_t, final_fp, drop_fp, drop_t, diff_file_list, ndiffs,
                   rendered, nummails, mails, notSplit>>

\* TempFile.__del__ of the files of a stream nobody closed, if and when the
\* interpreter destroys the objects
DestroyTempFiles ==
    /\ spc = "failed"
    /\ final_fp.tempfiles # <<>>
    /\ final_fp' = [final_fp EXCEPT !.tempfiles = <<>>]
    /\ UNCHANGED <<spc, fp, fp_t, drop_fp, drop_t, diff_file_list, ndiffs,
                   rendered, nummails, mails, notSplit>>

InitSplitSend ==
    /\ InitSplitAny
    /\ IsText

NextSplitSend ==
    \/ WriteMetaData
    \/ WritePathList
    \/ WriteDiffListHead
    \/ WriteDiff
    \/ FlushForMails
    \/ YieldMail
    \/ CloseStreams
    \/ ComposeFails
    \/ DestroyTempFiles

SpecSplitSend == InitSplitSend /\ [][NextSplitSend]_vars

\* C23: when the notification has ended, with all mails sent, with the
\* summary mail sent, or with an exception of a writer or of sendMail, no
\* temporary file of the SplittingStream is left.
C23_TempFilesDeleted ==
    spc \in {"done", "failed"} => final_fp.tempfiles = <<>>

-----------------------------------------------------------------------------
(* The parts of the text SplittingDecorator. *)

\* C24: the text notifier in mode split mails at least one part, and no
\* part mailed is the separator newline alone.
C24_EveryPartHasContent ==
    (spc = "done" /\ IsText) =>
        /\ nummails >= 1
        /\ Len(mails) >= 1
        /\ \A i \in 1..Len(mails) : mails[i].body # <<"\n">>

-----------------------------------------------------------------------------
(* The mails of the multipart SplittingDecorator. *)

\* the numbers of the diffs attached to the mails, mail after mail
RECURSIVE AttachedDiffs(_)
AttachedDiffs(list) ==
    IF list = <<>> THEN <<>> ELSE Head(list).diffs \o AttachedDiffs(Tail(list))

\* C25: when the multipart notifier splits and does not fall back to the
\* summary, the number of mails is the part count computed before the first
\* mail is made, the i-th mail carries the marker [i/N], and the diffs are
\* attached in their order, each to one mail.
C25_MultiMarkersMatchCount ==
    (spc = "done" /\ ~IsText /\ nummails > 1
        /\ ~dropApplies(notifier.drop, nummails)) =>
        /\ nummails = MultiCount(diff_file_list, Len(fp), 1, notifier.maxsize)
        /\ NumberedMails
        /\ AttachedDiffs(mails)
             = [k \in 1..Len(diff_file_list) |-> diff_file_list[k][1]]

\* three mails of the multipart notifier, the second with two diffs
C25_Witness ==
    /\ spc = "done"
    /\ ~IsText
    /\ nummails = 3
    /\ Len(mails) = 3
    /\ Len(mails[2].diffs) = 2

-----------------------------------------------------------------------------
(* notifier._text.TextNotifier.writePathList, for the GroupSets that       *)
(* Main._getGroupSets built.  The text is the list of the lines written;   *)
(* every change of the model is a modification without property changes.   *)

MaxRenderGroups == 2

TextLine(s) == [line |-> s, path |-> <<>>]

\* "(There are changes in other areas, but they are not listed here.)"
NoticeLine ==
    TextLine("(There are changes in other areas, but they are not listed here.)")

\* "Changes in other areas also in this revision:"
OtherAreasLine == TextLine("Changes in other areas also in this revision:")

\* TextNotifier.writePathInfo: "    %s%s" and the line end
writePathInfo(change) == [line |-> "    %s%s", path |-> PathString(change)]

\* TextNotifier._doWritePathList: the title and the changes under it
doWritePathList(set) ==
    IF set = <<>> THEN <<>>
    ELSE <<TextLine("Modified:")>>
            \o [k \in 1..Len(set) |-> writePathInfo(set[k])]

\* TextNotifier.writePathList
writePathList(gs, groupset) ==
    LET xset == groupset.xchanges
    IN  doWritePathList(groupset.changes)
        \o (IF ~xset.isset THEN <<>>
            ELSE IF xset.list # <<>>
            THEN <<TextLine(""), OtherAreasLine>> \o doWritePathList(xset.list)
            ELSE IF gs[groupset.groups[1]].show_nonmatching_paths = "no"
            THEN <<TextLine(""), NoticeLine>>
            ELSE <<>>)

\* the path list of one GroupSet of the run is written
WriteSetPathList ==
    /\ gpc = "done"
    /\ spc = "idle"
    /\ \E i \in 1..Len(group_sets) :
          /\ gsidx \in {0, i}
          /\ gsidx' = i
          /\ fp' = writePathList(groups, group_sets[i])
    /\ spc' = "paths"
    /\ UNCHANGED <<gvars, rpc, repos, nsets, notifiers, nidx, notifier_errors,
                   result, attempted, selected, tvars, dvars, fp_t, final_fp,
                   drop_fp, drop_t, diff_file_list, ndiffs, rendered,
                   nummails, mails, uvars, jvars, mvars>>

\* the subject templates a section sets in the rendering runs
RenderTemplates ==
    {NoValue, MkValue(<<Ref("group"), Lit(" "), Ref("files/dirs")>>)}

MkRenderGroup(i, prof, template, length) ==
    [MkSetGroup(i, prof) EXCEPT
        !.commit_subject_template = template,
        !.max_subject_length = length]

RenderConfigs ==
    UNION { { [i \in 1..n |-> MkRenderGroup(i, f[i][1], f[i][2], f[i][3])] :
                f \in [1..n -> SetProfiles \X RenderTemplates
                                   \X {0, MaxSubjectLength}] } :
            n \in 0..MaxRenderGroups }

\* "changeset = groupset.changes + groupset.xchanges", the paths as strings
SubjectChangeset(groupset) ==
    { [path |-> <<c.path>>, isDir |-> c.isDir] :
        c \in SeqRange(groupset.changes) \cup SeqRange(groupset.xchanges.list) }

\* what getMailSubject reads of a group in commit mode
SubjectGroup(group) ==
    LET prefix == GetAttr(group, "commit_subject_prefix")
    IN  [ max_subject_length |-> GetAttr(group, "max_subject_length"),
          subject_prefix |-> IF prefix.isset THEN prefix.t ELSE <<>>,
          subject_template |-> GetAttr(group, "commit_subject_template"),
          subst |-> group.subst ]

\* getMailSubject is called for one GroupSet of the run
StartSubject ==
    /\ gpc = "done"
    /\ jpc = "idle"
    /\ \E i \in 1..Len(group_sets) :
          /\ gsidx \in {0, i}
          /\ gsidx' = i
          /\ changeset' = SubjectChangeset(group_sets[i])
          /\ group0' = SubjectGroup(groups[group_sets[i].groups[1]])
    /\ countprefix' = <<>>
    /\ jpc' = "start"
    /\ UNCHANGED <<gvars, rpc, repos, nsets, notifiers, nidx, notifier_errors,
                   result, attempted, selected, tvars, dvars, svars, uvars,
                   subject, mvars>>

InitRender ==
    \E sections \in RenderConfigs, event \in Events :
        GroupingStart(extractGroupSections(sections), event)

NextRender ==
    \/ ClassifyChange
    \/ BuildGroupSets
    \/ WriteSetPathList
    \/ StartSubject
    \/ DoSubjectFiles
    \/ DoSubjectDirs
    \/ ReduceSubject

SpecRender == InitRender /\ [][NextRender]_vars

\* C26: with show_nonmatching_paths = no, the notice about changes in other
\* areas is in the path list of a GroupSet only if the event has a change
\* that is not among the changes of the GroupSet.
C26_NoticeOnlyWithOtherChanges ==
    (spc = "paths" /\ PolicyOf(group_sets[gsidx]) = "no"
        /\ NoticeLine \in SeqRange(fp))
    => Paths(changes) \ Paths(group_sets[gsidx].changes) # {}

\* the names the subject template of the running getMailSubject refers to
TemplateKeys ==
    { SubjectTemplate.t[k].v :
        k \in {n \in 1..Len(SubjectTemplate.t) : SubjectTemplate.t[n].kind = "ref"} }

\* C27: for every group merged into the GroupSet whose subject is made,
\* what getMailSubject reads of the first group is the same in that group:
\* max_subject_length, the subject prefix, the subject template, and the
\* value of every substitution the template refers to.
C27_SameWhicheverRepresentative ==
    jpc = "done" =>
        \A h \in SeqRange(group_sets[gsidx].groups) :
            LET other == SubjectGroup(groups[h])
            IN  /\ other.max_subject_length = group0.max_subject_length
                /\ other.subject_prefix = group0.subject_prefix
                /\ other.subject_template = group0.subject_template
                /\ \A k \in TemplateKeys :
                      SafeGet(other.subst, k) = SafeGet(group0.subst, k)

-----------------------------------------------------------------------------
(* The end of Main.run *)

\* the ways run ends: it returns, or raises one of these
RunEndings ==
    {"returned", "NotifierError", "RepositoryError", "KeyboardInterrupt",
     "SystemExit", "InvalidMailOption"}

\* C28: however run ends (it returns, or raises NotifierError,
\* RepositoryError or any other exception, the failure to open the
\* repository included), the repository is not left open, and the close
\* does not add an exception of its own: run ends the way its body ended,
\* and without a repository object (the open failed) with RepositoryError.
C28_RepositoryClosedOnExit ==
    rpc = "done" =>
        /\ result \in RunEndings
        /\ repos # "open"
        /\ repos = "none" =>
              result = "RepositoryError" /\ attempted = {} /\ selected = {}
        /\ result \in {"returned", "NotifierError"} => repos = "closed"

\* the repository could not be opened: run ended with RepositoryError, the
\* close found no repository object
C28_Witness ==
    /\ rpc = "done"
    /\ repos = "none"
    /\ result = "RepositoryError"
    /\ nsets > 0

-----------------------------------------------------------------------------
(* notifier._mail.MailNotifier.run inside the loops of Main.run: the mails *)
(* of getMails are made one by one and given to sendMail.  sendMail is the *)
(* transport: it returns, or it raises.                                    *)

MaxParts == 3

\* how a call of sendMail ends: it returns, or raises one of these
SendOutcomes == {"sent", "Exception"} \cup throwables

\* how the composing of the mails ends before the first mail is yielded
ComposeOutcomes == {"mails", "NoRecipientsError", "Exception"}

LoopGoesOnAnyway(o, p, n) == p < n

\* "for mail in self.getMails(): self.sendMail(...)": there is a next turn
\* if the call returned and getMails has another mail
LoopGoesOn(o, p, n) == o = "sent" /\ p < n

\* notifier.run() is called: composeMail up to the first yield;
\* NoRecipientsError ends run() without a mail
ComposeMails ==
    /\ rpc = "run"
    /\ part = 0
    /\ attempted' = attempted \cup {<<gsidx, nidx>>}
    /\ transport' = <<>>
    /\ \E o \in ComposeOutcomes :
          CASE o = "mails" ->
                  /\ \E n \in 1..MaxParts : nparts' = n
                  /\ part' = 1
                  /\ UNCHANGED <<rpc, repos, gsidx, nidx, notifier_errors, result>>
            [] o = "NoRecipientsError" ->
                  /\ NextNotifier
                  /\ UNCHANGED <<nparts, part, notifier_errors>>
            [] OTHER ->
                  /\ notifier_errors' = Append(notifier_errors, <<gsidx, nidx>>)
                  /\ NextNotifier
                  /\ UNCHANGED <<nparts, part>>
    /\ UNCHANGED <<nsets, notifiers, selected, gvars, tvars, dvars, svars,
                   uvars, jvars>>

\* one turn of the loop of run(): self.sendMail(mail[0], mail[1], mail[2]);
\* an exception leaves run() and is handled in Main.run
SendMail ==
    /\ rpc = "run"
    /\ part >= 1
    /\ \E o \in SendOutcomes :
          /\ transport' = Append(transport,
                [groupset |-> gsidx, notifier |-> nidx, part |-> part,
                 outcome |-> o])
          /\ IF LoopGoesOn(o, part, nparts)
             THEN /\ part' = part + 1
                  /\ UNCHANGED <<nparts, rpc, repos, gsidx, nidx,
                                 notifier_errors, result>>
             ELSE /\ part' = 0
                  /\ nparts' = 0
                  /\ CASE o = "sent" ->
                            /\ NextNotifier
                            /\ UNCHANGED notifier_errors
                       [] o \in throwables ->
                            /\ Leave(o)
                            /\ UNCHANGED <<gsidx, nidx, notifier_errors>>
                       [] OTHER ->
                            /\ notifier_errors' =
                                  Append(notifier_errors, <<gsidx, nidx>>)
                            /\ NextNotifier
    /\ UNCHANGED <<nsets, notifiers, attempted, selected, gvars, tvars, dvars,
                   svars, uvars, jvars>>

NextSend ==
    \/ OpenRepository
    \/ GetGroupSets
    \/ SelectNotifiers
    \/ ComposeMails
    \/ SendMail
    \/ FinishRun

SpecSend == InitRun /\ [][NextSend]_vars

\* the number of records of a notifier in notifier_errors
RecordsOf(place) ==
    Cardinality({k \in 1..Len(notifier_errors) : notifier_errors[k] = place})

\* the calls of sendMail of the notifier are for its parts 1, 2, ... in this
\* order, each once; a call that raised an exception is the last one, and
\* the notifier then has exactly one record in notifier_errors
SentInOrder ==
    \A k \in 1..Len(transport) :
        /\ transport[k].part = k
        /\ transport[k].outcome # "sent" => k = Len(transport)
        /\ transport[k].outcome = "Exception" =>
              RecordsOf(<<transport[k].groupset, transport[k].notifier>>) = 1

\* a step in which sendMail raised an exception other than the ones that
\* end the run
DeliveryFails ==
    /\ Len(transport') = Len(transport) + 1
    /\ transport'[Len(transport')].outcome = "Exception"

\* after it the loops of Main.run are at the next notifier of the GroupSet,
\* at the next GroupSet, or past the last one; the run has not ended
LoopsGoOn ==
    /\ result' = "running"
    /\ IF nidx < notifiers
       THEN rpc' = "run" /\ gsidx' = gsidx /\ nidx' = nidx + 1
       ELSE IF gsidx < nsets
       THEN rpc' = "select" /\ gsidx' = gsidx + 1
       ELSE rpc' = "finish"

\* C29: the mails of one notifier are given to sendMail in the order of
\* their part numbers, each once; when sendMail fails for a part, no later
\* part of the notifier is sent, the notifier gets exactly one record in
\* notifier_errors, and the loops of Main.run go on with the next notifier
\* or GroupSet.
C29_PartsInOrderFailureOnce ==
    /\ []SentInOrder
    /\ [][DeliveryFails => LoopsGoOn]_vars

\* the second of three parts failed for the first notifier of the first
\* GroupSet: two calls were made, and the second notifier is being run
C29_Witness ==
    /\ Len(transport) = 2
    /\ transport[1].outcome = "sent"
    /\ transport[2].outcome = "Exception"
    /\ notifier_errors = << <<1, 1>> >>
    /\ rpc = "run"
    /\ gsidx = 1
    /\ nidx = 2
    /\ nsets > 1

-----------------------------------------------------------------------------
(* The substitution maps stored while the changes are classified *)

\* the changes classified so far to which group g applies, by their index
AppliedAt(g) == { k \in 1..(cidx - 1) : g \in ApplyingTo(changes[k]) }

\* the largest number of a non-empty set of numbers
SetMax(S) == CHOOSE x \in S : \A y \in S : y <= x

\* the substitutions computed for a group and a change: the defaults and the
\* named groups of the matches of for_repos and for_paths
ComputedFor(g, change) ==
    MatchGroup(groups[g], ReposPath, PathString(change)).subst

\* a step that classifies a change leaves the list of groups as long as it
\* was, changes a group only if the group applies to that change, and
\* changes nothing of it but the stored substitutions
SubstOnlyOfApplying ==
    cidx' = cidx + 1 =>
        /\ Len(groups') = Len(groups)
        /\ \A g \in 1..Len(groups) :
              /\ groups'[g] # groups[g] => g \in ApplyingTo(changes[cidx])
              /\ [groups'[g] EXCEPT !.subst = groups[g].subst] = groups[g]

\* every substitution computed for the last change a group applied to is
\* stored in the group with the value computed then; a group that applied
\* to no change has no stored substitution
LastWriterWins ==
    \A g \in 1..Len(groups) :
        IF AppliedAt(g) = {} THEN groups[g].subst = {}
        ELSE ComputedFor(g, changes[SetMax(AppliedAt(g))]) \subseteq groups[g].subst

\* C30: classifying a change modifies the stored substitutions of a group
\* only if the group applies to the change and modifies no other member of
\* any group; at any point, and so after the last change, the substitutions
\* computed for the last change a group applied to are stored with the
\* values computed for that change.
C30_SubstFrameLastWriter ==
    /\ []LastWriterWins
    /\ [][SubstOnlyOfApplying]_vars

\* all changes are classified; one group applied to the first and to the
\* last change and holds the named group of the last, another applied only
\* to the first (its exclude_paths matches the last) and holds that of the
\* first
C30_Witness ==
    /\ gpc = "build"
    /\ Len(changes) = 2
    /\ \E g, h \in 1..Len(groups) :
          /\ AppliedAt(g) = {1, 2}
          /\ AppliedAt(h) = {1}
          /\ <<"proj", <<changes[2].path>>>> \in groups[g].subst
          /\ <<"proj", <<changes[1].path>>>> \in groups[h].subst

====
